---- MODULE Spec2Model ----
(***************************************************************************)
(* WorkForce Mobile: the compliance store (src/src/store/complianceStore), *)
(* the Time Truth service and the offline queue service, in their web and  *)
(* native builds.                                                          *)
(*                                                                         *)
(* Times are integer milliseconds.  An ISO 8601 string is the pair         *)
(* <<"iso", ms>>: Date.prototype.toISOString keeps millisecond precision   *)
(* and new Date(iso).getTime() reads it back.  A nullable value is <<>>    *)
(* (null) or <<v>>.  uuidv4() is a counter: every call returns a value no  *)
(* earlier call returned.                                                  *)
(***************************************************************************)
EXTENDS Integers, Sequences, FiniteSets, TLC

VARIABLES
  platform,      \* "web" | "native": which TimeTruthService / OfflineQueueService is bundled
  wall,          \* Date.now(): the user-adjustable wall clock
  mono,          \* DeviceInfo.getSystemUptime() * 1000: device uptime
  clockChanges,  \* how often the user has set the wall clock so far
  store,         \* the zustand state of useComplianceStore
  queue,         \* the persisted queue (AsyncStorage JSON array / SQLite rows in rowid order)
  calls,         \* the in-flight startTunnel / endTunnel / forceEndSession invocations
  nextId,        \* uuidv4() values handed out so far
  last,          \* the store operation that returned last, and what it returned
  enqueued,      \* payload ids of the TIME_ENTRY records OfflineQueueService.enqueue has stored
  returned,      \* ids of the entries startTunnel has returned
  twin,          \* a second device running the same operations at the same uptimes
  svc,           \* the in-flight OfflineQueueService calls made directly on the service
  issued,        \* those calls once finished, in the order they finished
  launch,        \* the queue found in storage when the app was launched
  synced,        \* ids of the queued records the server has confirmed
  capture,       \* the last capture TimeTruthService returned, and what became of it
  appState,      \* AppState.currentState as the listeners last saw it
  shifts         \* useShiftStore: the shifts array

vars == <<platform, wall, mono, clockChanges, store, queue, calls, nextId, last,
          enqueued, returned, twin, svc, issued, launch, synced, capture, appState, shifts>>

-----------------------------------------------------------------------------
(* Bounds *)

MaxSessions == 1       \* startTunnel calls that get past their guard
MaxClockChanges == 1   \* times the user sets the device clock

\* Slots for asynchronous store calls in flight; a call awaited before the
\* next one is made always runs in the first.
MaxQueueCalls == 2     \* calls made directly on OfflineQueueService

CallIds == {1, 2}
Awaited == {c \in CallIds : \A d \in CallIds : c <= d}

\* Uptime readings: the app is launched at the smallest one.
MonoVals == {2000, 71600}
LaunchUptime == CHOOSE m \in MonoVals : \A n \in MonoVals : m <= n
\* Wall clock at launch, and the values the user sets it to.
LaunchWalls == {200000}
WallSettings == {250000}

-----------------------------------------------------------------------------
(* Values *)

Null == <<>>
Some(v) == <<v>>
Val(o) == o[1]

ToISOString(ms) == <<"iso", ms>>
GetTime(iso) == iso[2]

MsPerMinute == 60000
TimeEntryPriority == 10
DefaultMaxAttempts == 5

Tasks == {[id |-> "task-1", payRate |-> 25]}

\* Math.floor((netMs / 60000) * payRate) in IEEE-754 double arithmetic.  The
\* quotient netMs / 60000 is rounded to a double before it is multiplied, so
\* where netMs * payRate is an exact multiple of 60000 the product can fall
\* just below the integer and the floor is one less.  InexactBelow25 lists
\* every netMs in -1500000..1500000 where that happens at payRate 25
\* (69600 / 60000 * 25 = 28.999999999999996).
InexactBelow25 ==
  {-1226400, -1195200, -1185600, -1176000, -1166400, -1135200, -1125600,
   -1116000, -1106400, -1075200, -1065600, -1056000, -1046400, -1015200,
   -1005600, -996000, -986400, -597600, -592800, -588000, -583200, -537600,
   -532800, -528000, -523200, -268800, -266400, -264000, -261600, -134400,
   -132000, -67200, -33600, -16800, 69600, 136800, 139200, 271200, 273600,
   276000, 278400, 482400, 487200, 492000, 496800, 542400, 547200, 552000,
   556800, 602400, 607200, 612000, 964800, 974400, 984000, 993600, 1024800,
   1034400, 1044000, 1053600, 1084800, 1094400, 1104000, 1113600, 1144800,
   1154400, 1164000, 1173600, 1204800, 1214400, 1224000}

\* floor of the exact rational netMs * payRate / 60000 (\div rounds down).
ExactFloorCents(netMs, payRate) == (netMs * payRate) \div MsPerMinute

FloorEarnings(netMs, payRate) ==
  IF payRate = 25 /\ netMs \in InexactBelow25
  THEN ExactFloorCents(netMs, payRate) - 1
  ELSE ExactFloorCents(netMs, payRate)

-----------------------------------------------------------------------------
(* TimeTruthService.captureTimeEvent *)

\* performance.now(): milliseconds since the app was launched.
PerformanceNow(m) == m - LaunchUptime

\* getMonotonicTime.  native: the uptime, or performance.now() when
\* DeviceInfo.getSystemUptime() rejects ("perf"); web: Date.now().
GetMonotonicTime(plat, source, w, m) ==
  IF plat = "web" THEN w
  ELSE IF source = "perf" THEN PerformanceNow(m) ELSE m

\* calculateBootTime.  native: Date.now() - uptime; web: the current time.
CalculateBootTime(plat, w, uptime) ==
  IF plat = "web" THEN ToISOString(w) ELSE ToISOString(w - uptime)

\* What getMonotonicTime can do on each platform: on native the uptime, the
\* performance.now() fallback, or "Unable to get monotonic time" ("throw");
\* the web build reads Date.now() and cannot fail.
CaptureOutcomes(plat) ==
  IF plat = "web" THEN {"uptime"} ELSE {"uptime", "perf", "throw"}

CaptureTimeEvent(plat, source, w, m) ==
  [wallClockTime  |-> ToISOString(w),
   monotonicTime  |-> GetMonotonicTime(plat, source, w, m),
   deviceBootTime |-> CalculateBootTime(plat, w, GetMonotonicTime(plat, source, w, m))]

\* TimeEventType
TimeEventTypes == {"CLOCK_IN", "CLOCK_OUT", "FORCE_CLOCK_OUT", "BREAK_START", "BREAK_END"}

SECRET_SALT == "WORKFORCE_MOBILE_SECRET_SALT_PLACEHOLDER_2024"
WEB_SIGNATURE == "WEB_UNVERIFIED_SIGNATURE"

\* getDeviceId(): the installation id on native, the localStorage id on web.
GetDeviceId(plat) == IF plat = "web" THEN "web_device" ELSE "installation-id"

\* getDeviceInfo().deviceModel
DeviceModel(plat) == IF plat = "web" THEN "Web Browser" ELSE "Device.modelName"

\* generateSignature: SHA-256 of JSON.stringify(data) + salt, taken as
\* collision-free: equal digests only for equal data and salt.
GenerateSignature(data, salt) == <<"sha256", data, salt>>

\* captureCurrentTime.  web: monotonicTime is userTime and the signature is the
\* fixed WEB_SIGNATURE; native: getMonotonicTime() and the SHA-256 signature.
CaptureCurrentTime(plat, eventType, source, w, m) ==
  LET payload == [userTime      |-> w,
                  monotonicTime |-> GetMonotonicTime(plat, source, w, m),
                  eventType     |-> eventType,
                  deviceId      |-> GetDeviceId(plat),
                  timestamp     |-> ToISOString(w)]
  IN [payload   |-> payload,
      signature |-> IF plat = "web" THEN WEB_SIGNATURE
                    ELSE GenerateSignature(payload, SECRET_SALT)]

\* validateIntegrity.  native: recomputes the signature over the payload and
\* compares; web: compares the signature with WEB_SIGNATURE only.
ValidateIntegrity(plat, signedCapture) ==
  IF plat = "web"
  THEN signedCapture.signature = WEB_SIGNATURE
  ELSE GenerateSignature(signedCapture.payload, SECRET_SALT) = signedCapture.signature

\* The whole TimeEvent captureTimeEvent returns.
TimeEvent(plat, eventType, source, w, m) ==
  LET ev == CaptureTimeEvent(plat, source, w, m) IN
  [eventType      |-> eventType,
   wallClockTime  |-> ev.wallClockTime,
   monotonicTime  |-> ev.monotonicTime,
   deviceBootTime |-> ev.deviceBootTime,
   deviceId       |-> GetDeviceId(plat),
   deviceModel    |-> DeviceModel(plat)]

\* No capture has been taken (or the last one threw).
NoCapture ==
  [kind |-> "none", source |-> "none", made |-> Null, value |-> Null,
   isValid |-> Null]

-----------------------------------------------------------------------------
(* OfflineQueueService: one call as a whole (no other call in between) *)

\* JSON.stringify of a payload object: its keys with their values, as text.
JsonStringify(v) == <<"json", {<<k, v[k]>> : k \in DOMAIN v}>>

\* JSON.parse of that text.
JsonParse(text) ==
  [k \in {e[1] : e \in text[2]} |-> (CHOOSE e \in text[2] : e[1] = k)[2]]

\* What storage gives back for a record: the payload has been through
\* JSON.stringify (saveQueue / the payload column) and JSON.parse (loadQueue /
\* getQueue's row mapping).
Stored(rec) == [rec EXCEPT !.payload = JsonParse(JsonStringify(rec.payload))]

\* The record enqueue builds, lines 89-98 (web) and 128-137 (native); a
\* maxAttempts of 0 stands for one that is absent or 0: action.maxAttempts || 5.
QueuedActionAttemptsOne(id, type, payload, priority, maxAttempts, w) ==
  [id          |-> id,
   type        |-> type,
   payload     |-> payload,
   priority    |-> priority,
   attempts    |-> 1,
   maxAttempts |-> IF maxAttempts = 0 THEN DefaultMaxAttempts ELSE maxAttempts,
   lastAttempt |-> Null,
   createdAt   |-> ToISOString(w)]

QueuedAction(id, type, payload, priority, maxAttempts, w) ==
  [id          |-> id,
   type        |-> type,
   payload     |-> payload,
   priority    |-> priority,
   attempts    |-> 0,
   maxAttempts |-> IF maxAttempts = 0 THEN DefaultMaxAttempts ELSE maxAttempts,
   lastAttempt |-> Null,
   createdAt   |-> ToISOString(w)]

\* findIndex(action => action.id === id); 0 stands for -1.
FindIndex(q, id) ==
  IF \E i \in 1..Len(q) : q[i].id = id
  THEN CHOOSE i \in 1..Len(q) : q[i].id = id /\ \A j \in 1..(i - 1) : q[j].id # id
  ELSE 0

\* { ...queue[index], ...updates } for the fields updateTimeEntry passes.
ApplyUpdates(rec, updates) ==
  [rec EXCEPT !.type = updates.type,
              !.payload = JsonParse(JsonStringify(updates.payload)),
              !.priority = updates.priority]

\* update(id, updates).  web: throws when the id is not in the array.
\* native: UPDATE ... WHERE id = ? changes the matching rows, none if there is
\* none, and resolves either way.
QueueUpdate(plat, q, id, updates) ==
  LET i == FindIndex(q, id) IN
  IF i = 0
  THEN [ok |-> plat = "native", q |-> q]
  ELSE [ok |-> TRUE, q |-> [q EXCEPT ![i] = ApplyUpdates(q[i], updates)]]

\* queue.filter(action => action.id !== id) / DELETE ... WHERE id = ?
QueueRemove(q, id) == SelectSeq(q, LAMBDA a : a.id # id)

\* incrementAttempts(id).  web: throws when the id is not in the array.
\* native: UPDATE ... SET attempts = attempts + 1, last_attempt = ? WHERE id = ?
QueueIncrementAttempts(plat, q, id, w) ==
  LET i == FindIndex(q, id) IN
  IF i = 0
  THEN [ok |-> plat = "native", q |-> q]
  ELSE [ok |-> TRUE,
        q |-> [q EXCEPT ![i] = [@ EXCEPT !.attempts = @ + 1,
                                         !.lastAttempt = Some(ToISOString(w))]]]

\* removeFailedActions(): the records kept and the number removed.
\* web: two filters on attempts against maxAttempts; native: DELETE ... WHERE
\* attempts >= max_attempts and result.changes.
QueueRemoveFailedStrict(q) ==
  LET kept == SelectSeq(q, LAMBDA a : a.attempts <= a.maxAttempts) IN
  [count |-> Len(q) - Len(kept), q |-> kept]

QueueRemoveFailed(q) ==
  LET kept == SelectSeq(q, LAMBDA a : a.attempts < a.maxAttempts) IN
  [count |-> Len(q) - Len(kept), q |-> kept]

\* getStats(): the counts over one queue.  byType and byPriority have a key
\* for each type and priority present.
CountByType(q) ==
  [t \in {q[i].type : i \in 1..Len(q)} |->
     Cardinality({i \in 1..Len(q) : q[i].type = t})]
CountByPriority(q) ==
  [p \in {q[i].priority : i \in 1..Len(q)} |->
     Cardinality({i \in 1..Len(q) : q[i].priority = p})]
FailedCountStrict(q) ==
  Cardinality({i \in 1..Len(q) : q[i].attempts > q[i].maxAttempts})
FailedCount(q) ==
  Cardinality({i \in 1..Len(q) : q[i].attempts >= q[i].maxAttempts})
QueueStats(q) ==
  [total       |-> Len(q),
   byType      |-> CountByType(q),
   byPriority  |-> CountByPriority(q),
   failedCount |-> FailedCount(q)]

\* The callback of queue.sort in the web getQueue: negative when a goes first.
CompareActionsLowPriorityFirst(a, b) ==
  IF a.priority # b.priority
  THEN a.priority - b.priority
  ELSE GetTime(a.createdAt) - GetTime(b.createdAt)

CompareActions(a, b) ==
  IF a.priority # b.priority
  THEN b.priority - a.priority
  ELSE GetTime(a.createdAt) - GetTime(b.createdAt)

\* ORDER BY priority DESC, created_at ASC in the native getQueue: created_at
\* holds toISOString() text, whose order is the order of the instants.
OrderBy(a, b) ==
  \/ a.priority > b.priority
  \/ a.priority = b.priority /\ GetTime(a.createdAt) < GetTime(b.createdAt)

\* Whether a goes in front of b when getQueue orders the stored records.
InFront(plat, a, b) ==
  IF plat = "web" THEN CompareActions(a, b) < 0 ELSE OrderBy(a, b)

\* Array.prototype.sort is stable; the rows of idx_priority(priority DESC,
\* created_at ASC) with equal keys follow one another in rowid order.  Both
\* are the insertion of each stored record, in stored order, behind every
\* record that does not have to come after it.
RECURSIVE InsertOrdered(_, _, _)
InsertOrdered(plat, x, sorted) ==
  IF sorted = <<>> THEN <<x>>
  ELSE IF InFront(plat, x, Head(sorted)) THEN <<x>> \o sorted
  ELSE <<Head(sorted)>> \o InsertOrdered(plat, x, Tail(sorted))

RECURSIVE SortQueue(_, _)
SortQueue(plat, q) ==
  IF q = <<>> THEN <<>>
  ELSE InsertOrdered(plat, q[Len(q)], SortQueue(plat, SubSeq(q, 1, Len(q) - 1)))

\* sortedQueue.slice(0, limit) when limit is truthy / LIMIT ${limit}
Slice(q, limit) ==
  IF limit = 0 \/ limit >= Len(q) THEN q ELSE SubSeq(q, 1, limit)

GetQueueWeb(q, limit) == Slice(SortQueue("web", q), limit)

GetQueueNative(q, limit) == Slice(SortQueue("native", q), limit)

\* An OfflineQueueService call slot: the web build's calls hold the array
\* loadQueue() returned while they await.
SvcIds == 1..MaxQueueCalls
IdleSvc == [op |-> "idle", arg |-> Null, loaded |-> <<>>]

-----------------------------------------------------------------------------
(* complianceStore: the state and the set({...}) of each action *)

InitStore ==
  [appMode                |-> "PASSIVE",
   currentSessionEarnings |-> 0,
   activeTask             |-> Null,
   currentTimeEntry       |-> Null,
   isPaused               |-> FALSE,
   pausedAt               |-> Null,
   totalPauseDuration     |-> 0,
   sessionStartTime       |-> Null,
   monotonicSessionStart  |-> Null]

\* startTunnel's guard: appMode === 'ACTIVE' || state.currentTimeEntry
AlreadyActiveNever(st) == FALSE
AlreadyActive(st) == st.appMode = "ACTIVE" \/ st.currentTimeEntry # Null

\* endTunnel's guard
NoActiveSession(st) ==
  st.appMode # "ACTIVE" \/ st.currentTimeEntry = Null \/ st.activeTask = Null

NewTimeEntry(id, task, ev) ==
  [id             |-> id,
   startTime      |-> ev.wallClockTime,
   endTime        |-> Null,
   monotonicStart |-> ev.monotonicTime,
   monotonicEnd   |-> Null,
   deviceBootTime |-> ev.deviceBootTime,
   remoteTaskId   |-> task.id]

CompletedEntry(entry, ev) ==
  [entry EXCEPT !.endTime = ev.wallClockTime,
                !.monotonicEnd = Some(ev.monotonicTime)]

\* startTunnel's set({...}) after the enqueue
StartSet(st, task, entry, ev) ==
  [appMode                |-> "ACTIVE",
   currentSessionEarnings |-> 0,
   activeTask             |-> Some(task),
   currentTimeEntry       |-> Some(entry),
   isPaused               |-> FALSE,
   pausedAt               |-> Null,
   totalPauseDuration     |-> 0,
   sessionStartTime       |-> ev.wallClockTime,
   monotonicSessionStart  |-> Some(ev.monotonicTime)]

\* endTunnel's final earnings, from the state read when the call began
EndEarnings(st, ev) ==
  FloorEarnings(
    (ev.monotonicTime - Val(st.monotonicSessionStart)) - st.totalPauseDuration,
    Val(st.activeTask).payRate)

\* endTunnel's set({...})
EndSet(st, earnings) == [InitStore EXCEPT !.currentSessionEarnings = earnings]

\* pauseSession
PauseSetAgain(st, w) ==
  IF st.appMode # "ACTIVE"
  THEN st
  ELSE [st EXCEPT !.isPaused = TRUE, !.pausedAt = ToISOString(w)]

PauseSet(st, w) ==
  IF st.appMode # "ACTIVE" \/ st.isPaused
  THEN st
  ELSE [st EXCEPT !.isPaused = TRUE, !.pausedAt = ToISOString(w)]

\* resumeSession
ResumeSetFromStart(st, w) ==
  IF st.appMode # "ACTIVE" \/ ~st.isPaused \/ st.pausedAt = Null
  THEN st
  ELSE [st EXCEPT !.isPaused = FALSE,
                  !.pausedAt = Null,
                  !.totalPauseDuration = st.totalPauseDuration + (w - GetTime(st.sessionStartTime))]

ResumeSet(st, w) ==
  IF st.appMode # "ACTIVE" \/ ~st.isPaused \/ st.pausedAt = Null
  THEN st
  ELSE [st EXCEPT !.isPaused = FALSE,
                  !.pausedAt = Null,
                  !.totalPauseDuration = st.totalPauseDuration + (w - GetTime(st.pausedAt))]

\* updateEarnings' early return; !state.monotonicSessionStart is also true of 0
UpdateEarningsSkipsUnpausedOnly(st) ==
  \/ st.appMode # "ACTIVE"
  \/ st.activeTask = Null
  \/ st.monotonicSessionStart = Null
  \/ Val(st.monotonicSessionStart) = 0

UpdateEarningsSkips(st) ==
  \/ st.appMode # "ACTIVE"
  \/ st.activeTask = Null
  \/ st.monotonicSessionStart = Null
  \/ Val(st.monotonicSessionStart) = 0
  \/ st.isPaused

\* updateEarnings
UpdateEarningsSet(st, w) ==
  IF UpdateEarningsSkips(st)
  THEN st
  ELSE [st EXCEPT !.currentSessionEarnings =
          FloorEarnings((w - GetTime(st.sessionStartTime)) - st.totalPauseDuration,
                        Val(st.activeTask).payRate)]

\* reset
ResetSet(st) == InitStore

-----------------------------------------------------------------------------
(* The session machine: complianceStore's actions, one step per stretch of   *)
(* code between two awaits that let other handlers run                       *)

\* stale: the call was already running when a forceEndSession returned.
IdleCall ==
  [op |-> "idle", pc |-> "idle", task |-> Null, snap |-> Null, ev |-> Null,
   entry |-> Null, earnings |-> 0, stale |-> FALSE]

\* forceEndSession returns: the calls still running are marked.
MarkStale(cs) ==
  [d \in DOMAIN cs |-> IF cs[d].op = "idle" THEN cs[d]
                        ELSE [cs[d] EXCEPT !.stale = TRUE]]

\* What a call returned and what its console.error reported ("none" if nothing).
Returned(op, result, entry, logged) ==
  [op |-> op, result |-> result, entry |-> entry, logged |-> logged]

\* uuidv4() values the in-flight startTunnel calls will still draw: one for
\* the entry, one for the queue record.
PendingIds ==
  LET need(c) == IF calls[c].op # "start" THEN 0
                 ELSE IF calls[c].pc = "capture" THEN 2 ELSE 1
      sum[S \in SUBSET CallIds] ==
        IF S = {} THEN 0
        ELSE LET c == CHOOSE x \in S : TRUE IN need(c) + sum[S \ {c}]
  IN sum[CallIds]

\* A new call takes the first free slot.
FreeSlot(c) ==
  /\ calls[c].op = "idle"
  /\ \A d \in CallIds : d < c => calls[d].op # "idle"

\* The web capture awaits only resolved promises: it runs to its end before
\* any timer, lifecycle or input event is handled.
NoCaptureRunning ==
  platform = "web" => \A c \in CallIds : calls[c].pc # "capture"

Init ==
  /\ platform \in {"web", "native"}
  /\ wall \in LaunchWalls
  /\ mono = LaunchUptime
  /\ clockChanges = 0
  /\ store = InitStore
  /\ queue = <<>>
  /\ calls = [c \in CallIds |-> IdleCall]
  /\ nextId = 1
  /\ last = Returned("none", "void", Null, "none")
  /\ enqueued = {}
  /\ returned = {}
  /\ twin = [wall |-> wall, store |-> InitStore]
  /\ svc = [s \in SvcIds |-> IdleSvc]
  /\ issued = <<>>
  /\ launch = <<>>
  /\ synced = {}
  /\ capture = NoCapture
  /\ appState = "active"
  /\ shifts = <<>>

(* Time passes: both clocks advance by the same amount. *)
Advance(m) ==
  /\ NoCaptureRunning
  /\ m > mono
  /\ mono' = m
  /\ wall' = wall + (m - mono)
  /\ UNCHANGED <<twin, svc, issued, launch, synced, capture, appState, shifts>>
  /\ UNCHANGED <<platform, clockChanges, store, queue, calls, nextId, last,
                 enqueued, returned>>

(* The user sets the device's date and time. *)
SetWallClock(w) ==
  /\ NoCaptureRunning
  /\ clockChanges < MaxClockChanges
  /\ w # wall
  /\ wall' = w
  /\ clockChanges' = clockChanges + 1
  /\ UNCHANGED <<twin, svc, issued, launch, synced, capture, appState, shifts>>
  /\ UNCHANGED <<platform, mono, store, queue, calls, nextId, last, enqueued,
                 returned>>

(* startTunnel, lines 151-158: the guard *)
StartTunnel(c, task) ==
  /\ NoCaptureRunning
  /\ FreeSlot(c)
  /\ IF AlreadyActive(store)
     THEN /\ last' = Returned("startTunnel", "null", Null, "already-active")
          /\ UNCHANGED calls
     ELSE /\ calls' = [calls EXCEPT ![c] =
                         [IdleCall EXCEPT !.op = "start", !.pc = "capture",
                                          !.task = Some(task)]]
          /\ UNCHANGED last
  /\ UNCHANGED <<twin, svc, issued, launch, synced, capture, appState, shifts>>
  /\ UNCHANGED <<platform, wall, mono, clockChanges, store, queue, nextId,
                 enqueued, returned>>

(* startTunnel, lines 160-181: captureTimeEvent('CLOCK_IN') and the entry;
   at most `sessions` calls get this far *)
StartCaptureWithin(c, source, sessions) ==
  /\ calls[c].op = "start" /\ calls[c].pc = "capture"
  /\ source \in CaptureOutcomes(platform)
  /\ IF source = "throw"
     THEN /\ calls' = [calls EXCEPT ![c] = IdleCall]
          /\ last' = Returned("startTunnel", "null", Null, "capture")
          /\ UNCHANGED nextId
     ELSE LET ev == CaptureTimeEvent(platform, source, wall, mono) IN
          /\ nextId + PendingIds <= 2 * sessions + 1
          /\ calls' = [calls EXCEPT ![c].pc = "persist",
                                    ![c].ev = Some(ev),
                                    ![c].entry = Some(NewTimeEntry(nextId, Val(calls[c].task), ev))]
          /\ nextId' = nextId + 1
          /\ UNCHANGED last
  /\ UNCHANGED <<twin, svc, issued, launch, synced, capture, appState, shifts>>
  /\ UNCHANGED <<platform, wall, mono, clockChanges, store, queue, enqueued,
                 returned>>

StartCapture(c, source) == StartCaptureWithin(c, source, MaxSessions)

\* queueTimeEntry(timeEntry): OfflineQueueService.enqueue({type, payload, priority})
QueueTimeEntry(q, id, entry, w) ==
  Append(q, Stored(QueuedAction(id, "TIME_ENTRY", entry, TimeEntryPriority, 0, w)))

\* The store after startTunnel's try block: set({...}) once the enqueue has
\* resolved, nothing when it threw.
StartOutcome(st, task, entry, ev, stored) ==
  IF stored THEN StartSet(st, task, entry, ev) ELSE st

(* startTunnel, lines 183-211: queueTimeEntry, then set({...}) *)
StartPersist(c, stored) ==
  /\ NoCaptureRunning
  /\ calls[c].op = "start" /\ calls[c].pc = "persist"
  /\ calls' = [calls EXCEPT ![c] = IdleCall]
  /\ store' = StartOutcome(store, Val(calls[c].task), Val(calls[c].entry),
                           Val(calls[c].ev), stored)
  /\ IF stored
     THEN /\ queue' = QueueTimeEntry(queue, nextId, Val(calls[c].entry), wall)
          /\ nextId' = nextId + 1
          /\ enqueued' = enqueued \cup {Val(calls[c].entry).id}
          /\ returned' = returned \cup {Val(calls[c].entry).id}
          /\ last' = Returned("startTunnel", "entry", calls[c].entry, "none")
     ELSE /\ last' = Returned("startTunnel", "null", Null, "storage")
          /\ UNCHANGED <<queue, nextId, enqueued, returned>>
  /\ UNCHANGED <<twin, svc, issued, launch, synced, capture, appState, shifts>>
  /\ UNCHANGED <<platform, wall, mono, clockChanges>>

(* endTunnel, lines 213-219: the guard *)
EndTunnel(c) ==
  /\ NoCaptureRunning
  /\ FreeSlot(c)
  /\ IF NoActiveSession(store)
     THEN /\ last' = Returned("endTunnel", "null", Null, "no-session")
          /\ UNCHANGED calls
     ELSE /\ calls' = [calls EXCEPT ![c] =
                         [IdleCall EXCEPT !.op = "end", !.pc = "capture",
                                          !.snap = Some(store)]]
          /\ UNCHANGED last
  /\ UNCHANGED <<twin, svc, issued, launch, synced, capture, appState, shifts>>
  /\ UNCHANGED <<platform, wall, mono, clockChanges, store, queue, nextId,
                 enqueued, returned>>

(* endTunnel, lines 221-236: captureTimeEvent('CLOCK_OUT'), earnings, entry *)
EndCapture(c, source) ==
  /\ calls[c].op = "end" /\ calls[c].pc = "capture"
  /\ source \in CaptureOutcomes(platform)
  /\ IF source = "throw"
     THEN /\ calls' = [calls EXCEPT ![c] = IdleCall]
          /\ last' = Returned("endTunnel", "null", Null, "capture")
     ELSE LET ev == CaptureTimeEvent(platform, source, wall, mono)
              st == Val(calls[c].snap) IN
          /\ calls' = [calls EXCEPT ![c].pc = "persist",
                                    ![c].snap = Null,
                                    ![c].ev = Some(ev),
                                    ![c].earnings = EndEarnings(st, ev),
                                    ![c].entry = Some(CompletedEntry(Val(st.currentTimeEntry), ev))]
          /\ UNCHANGED last
  /\ UNCHANGED <<twin, svc, issued, launch, synced, capture, appState, shifts>>
  /\ UNCHANGED <<platform, wall, mono, clockChanges, store, queue, nextId,
                 enqueued, returned>>

\* updateTimeEntry(completedEntry): OfflineQueueService.update(timeEntry.id, ...)
UpdateTimeEntryRequeues(plat, q, entry) ==
  [ok |-> TRUE, q |-> QueueTimeEntry(q, entry.id, entry, 0)]
UpdateTimeEntry(plat, q, entry) ==
  QueueUpdate(plat, q, entry.id,
              [type |-> "TIME_ENTRY", payload |-> entry, priority |-> TimeEntryPriority])

\* The store after endTunnel's try block
EndOutcomeSetFirst(st, earnings, updated) == EndSet(st, earnings)
EndOutcome(st, earnings, updated) ==
  IF updated THEN EndSet(st, earnings) ELSE st

(* endTunnel, lines 238-265: updateTimeEntry, then set({...}) *)
EndPersist(c, stored) ==
  /\ NoCaptureRunning
  /\ calls[c].op = "end" /\ calls[c].pc = "persist"
  /\ calls' = [calls EXCEPT ![c] = IdleCall]
  /\ LET r == UpdateTimeEntry(platform, queue, Val(calls[c].entry)) IN
     /\ store' = EndOutcome(store, calls[c].earnings, stored /\ r.ok)
     /\ IF stored /\ r.ok
        THEN /\ queue' = r.q
             /\ last' = Returned("endTunnel", "entry", calls[c].entry, "none")
        ELSE /\ last' = Returned("endTunnel", "null", Null,
                                 IF stored THEN "not-found" ELSE "storage")
             /\ UNCHANGED queue
  /\ UNCHANGED <<twin, svc, issued, launch, synced, capture, appState, shifts>>
  /\ UNCHANGED <<platform, wall, mono, clockChanges, nextId, enqueued, returned>>

(* pauseSession *)
PauseSession ==
  /\ NoCaptureRunning
  /\ store' = PauseSet(store, wall)
  /\ last' = Returned("pauseSession", "void", Null, "none")
  /\ UNCHANGED <<twin, svc, issued, launch, synced, capture, appState, shifts>>
  /\ UNCHANGED <<platform, wall, mono, clockChanges, queue, calls, nextId,
                 enqueued, returned>>

(* resumeSession *)
ResumeSession ==
  /\ NoCaptureRunning
  /\ store' = ResumeSet(store, wall)
  /\ last' = Returned("resumeSession", "void", Null, "none")
  /\ UNCHANGED <<twin, svc, issued, launch, synced, capture, appState, shifts>>
  /\ UNCHANGED <<platform, wall, mono, clockChanges, queue, calls, nextId,
                 enqueued, returned>>

(* updateEarnings *)
UpdateEarnings ==
  /\ NoCaptureRunning
  /\ store' = UpdateEarningsSet(store, wall)
  /\ last' = Returned("updateEarnings", "void", Null, "none")
  /\ UNCHANGED <<twin, svc, issued, launch, synced, capture, appState, shifts>>
  /\ UNCHANGED <<platform, wall, mono, clockChanges, queue, calls, nextId,
                 enqueued, returned>>

\* The store after forceEndSession: the catch block logs, get().reset() runs
\* whether or not the try block threw.
ForceOutcomeResetOnSuccess(st, completed) == IF completed THEN ResetSet(st) ELSE st
ForceOutcome(st, completed) == ResetSet(st)

(* forceEndSession, lines 323-328 and 345: no current entry, reset at once *)
ForceEndSession(c) ==
  /\ NoCaptureRunning
  /\ FreeSlot(c)
  /\ IF store.currentTimeEntry # Null
     THEN /\ calls' = [calls EXCEPT ![c] =
                         [IdleCall EXCEPT !.op = "force", !.pc = "capture",
                                          !.snap = Some(store)]]
          /\ UNCHANGED <<store, last>>
     ELSE /\ store' = ForceOutcome(store, TRUE)
          /\ last' = Returned("forceEndSession", "void", Null, "none")
          /\ calls' = MarkStale(calls)
  /\ UNCHANGED <<twin, svc, issued, launch, synced, capture, appState, shifts>>
  /\ UNCHANGED <<platform, wall, mono, clockChanges, queue, nextId, enqueued,
                 returned>>

(* forceEndSession, lines 329-337: captureTimeEvent('FORCE_CLOCK_OUT') *)
ForceCapture(c, source) ==
  /\ calls[c].op = "force" /\ calls[c].pc = "capture"
  /\ source \in CaptureOutcomes(platform)
  /\ IF source = "throw"
     THEN /\ calls' = MarkStale([calls EXCEPT ![c] = IdleCall])
          /\ store' = ForceOutcome(store, FALSE)
          /\ last' = Returned("forceEndSession", "void", Null, "capture")
     ELSE LET ev == CaptureTimeEvent(platform, source, wall, mono)
              st == Val(calls[c].snap) IN
          /\ calls' = [calls EXCEPT ![c].pc = "persist",
                                    ![c].snap = Null,
                                    ![c].ev = Some(ev),
                                    ![c].entry = Some(CompletedEntry(Val(st.currentTimeEntry), ev))]
          /\ UNCHANGED <<store, last>>
  /\ UNCHANGED <<twin, svc, issued, launch, synced, capture, appState, shifts>>
  /\ UNCHANGED <<platform, wall, mono, clockChanges, queue, nextId, enqueued,
                 returned>>

(* forceEndSession, lines 339-346: updateTimeEntry, then get().reset() *)
ForcePersist(c, stored) ==
  /\ NoCaptureRunning
  /\ calls[c].op = "force" /\ calls[c].pc = "persist"
  /\ calls' = MarkStale([calls EXCEPT ![c] = IdleCall])
  /\ LET r == UpdateTimeEntry(platform, queue, Val(calls[c].entry)) IN
     /\ store' = ForceOutcome(store, stored /\ r.ok)
     /\ queue' = IF stored /\ r.ok THEN r.q ELSE queue
     /\ last' = Returned("forceEndSession", "void", Null,
                         IF ~stored THEN "storage"
                         ELSE IF ~r.ok THEN "not-found" ELSE "none")
  /\ UNCHANGED <<twin, svc, issued, launch, synced, capture, appState, shifts>>
  /\ UNCHANGED <<platform, wall, mono, clockChanges, nextId, enqueued, returned>>

\* Store calls made one at a time: each is awaited before the next is made,
\* while timers, lifecycle events and the clocks run during its awaits.
Next ==
  \/ \E m \in MonoVals : Advance(m)
  \/ \E w \in WallSettings : SetWallClock(w)
  \/ \E c \in Awaited, t \in Tasks : StartTunnel(c, t)
  \/ \E c \in Awaited, s \in {"uptime", "perf", "throw"} : StartCapture(c, s)
  \/ \E c \in Awaited, ok \in BOOLEAN : StartPersist(c, ok)
  \/ \E c \in Awaited : EndTunnel(c)
  \/ \E c \in Awaited, s \in {"uptime", "perf", "throw"} : EndCapture(c, s)
  \/ \E c \in Awaited, ok \in BOOLEAN : EndPersist(c, ok)
  \/ PauseSession
  \/ ResumeSession
  \/ UpdateEarnings
  \/ \E c \in Awaited : ForceEndSession(c)
  \/ \E c \in Awaited, s \in {"uptime", "perf", "throw"} : ForceCapture(c, s)
  \/ \E c \in Awaited, ok \in BOOLEAN : ForcePersist(c, ok)

Spec == Init /\ [][Next]_vars

-----------------------------------------------------------------------------
(* Two devices run the same store operations at the same uptimes; the user  *)
(* of the second one changes its wall clock.  getMonotonicTime is the       *)
(* uptime on the native build only (on the web build it is Date.now()), so  *)
(* the devices are native.  Every call is awaited and meets no fault; the   *)
(* queue records have the same ids on both devices, so one queue decides    *)
(* what updateTimeEntry does on either.                                     *)

InitTwin == Init /\ platform = "native"

TwinAdvance(m) ==
  /\ m > mono
  /\ mono' = m
  /\ wall' = wall + (m - mono)
  /\ twin' = [twin EXCEPT !.wall = @ + (m - mono)]
  /\ UNCHANGED <<platform, clockChanges, store, queue, calls, nextId, last,
                 enqueued, returned, svc, issued, launch, synced, capture, appState, shifts>>

TwinSetWallClock(w) ==
  /\ clockChanges < MaxClockChanges
  /\ w # twin.wall
  /\ twin' = [twin EXCEPT !.wall = w]
  /\ clockChanges' = clockChanges + 1
  /\ UNCHANGED <<platform, wall, mono, store, queue, calls, nextId, last,
                 enqueued, returned, svc, issued, launch, synced, capture, appState, shifts>>

TwinStartTunnel(task, source) ==
  /\ source \in CaptureOutcomes(platform) \ {"throw"}
  /\ ~AlreadyActive(store) /\ ~AlreadyActive(twin.store)
  /\ nextId + 2 <= 2 * MaxSessions + 1
  /\ LET ev     == CaptureTimeEvent(platform, source, wall, mono)
         ev2    == CaptureTimeEvent(platform, source, twin.wall, mono)
         entry  == NewTimeEntry(nextId, task, ev)
         entry2 == NewTimeEntry(nextId, task, ev2)
     IN /\ store' = StartOutcome(store, task, entry, ev, TRUE)
        /\ twin' = [twin EXCEPT
                      !.store = StartOutcome(twin.store, task, entry2, ev2, TRUE)]
        /\ queue' = QueueTimeEntry(queue, nextId + 1, entry, wall)
        /\ enqueued' = enqueued \cup {entry.id}
        /\ returned' = returned \cup {entry.id}
  /\ nextId' = nextId + 2
  /\ UNCHANGED <<platform, wall, mono, clockChanges, calls, last, svc, issued, launch, synced, capture, appState, shifts>>

TwinEndTunnel(source) ==
  /\ source \in CaptureOutcomes(platform) \ {"throw"}
  /\ ~NoActiveSession(store) /\ ~NoActiveSession(twin.store)
  /\ LET ev  == CaptureTimeEvent(platform, source, wall, mono)
         ev2 == CaptureTimeEvent(platform, source, twin.wall, mono)
         upd == UpdateTimeEntry(platform, queue,
                                CompletedEntry(Val(store.currentTimeEntry), ev))
     IN /\ store' = EndOutcome(store, EndEarnings(store, ev), upd.ok)
        /\ twin' = [twin EXCEPT
                      !.store = EndOutcome(twin.store, EndEarnings(twin.store, ev2),
                                           upd.ok)]
        /\ queue' = upd.q
  /\ UNCHANGED <<platform, wall, mono, clockChanges, calls, nextId, last,
                 enqueued, returned, svc, issued, launch, synced, capture, appState, shifts>>

TwinPauseSession ==
  /\ store' = PauseSet(store, wall)
  /\ twin' = [twin EXCEPT !.store = PauseSet(twin.store, twin.wall)]
  /\ UNCHANGED <<platform, wall, mono, clockChanges, queue, calls, nextId, last,
                 enqueued, returned, svc, issued, launch, synced, capture, appState, shifts>>

TwinResumeSession ==
  /\ store' = ResumeSet(store, wall)
  /\ twin' = [twin EXCEPT !.store = ResumeSet(twin.store, twin.wall)]
  /\ UNCHANGED <<platform, wall, mono, clockChanges, queue, calls, nextId, last,
                 enqueued, returned, svc, issued, launch, synced, capture, appState, shifts>>

TwinUpdateEarnings ==
  /\ store' = UpdateEarningsSet(store, wall)
  /\ twin' = [twin EXCEPT !.store = UpdateEarningsSet(twin.store, twin.wall)]
  /\ UNCHANGED <<platform, wall, mono, clockChanges, queue, calls, nextId, last,
                 enqueued, returned, svc, issued, launch, synced, capture, appState, shifts>>

NextTwin ==
  \/ \E m \in MonoVals : TwinAdvance(m)
  \/ \E w \in WallSettings : TwinSetWallClock(w)
  \/ \E t \in Tasks, s \in {"uptime", "perf"} : TwinStartTunnel(t, s)
  \/ \E s \in {"uptime", "perf"} : TwinEndTunnel(s)
  \/ TwinPauseSession
  \/ TwinResumeSession
  \/ TwinUpdateEarnings

SpecTwin == InitTwin /\ [][NextTwin]_vars

-----------------------------------------------------------------------------
(* Calls made directly on OfflineQueueService, as SyncService and the       *)
(* screens make them: any number of them can be in flight.  The web build   *)
(* reads the stored array when a call is made (loadQueue) and writes the    *)
(* changed copy back when the call runs on (saveQueue); the native build    *)
(* runs one SQL statement per call.                                         *)

Priorities == {1, 10}
IdArgs == {1, 2}
Limits == {0, 2}
MaxAttemptsArgs == {0, 3}
EnqueueArgs ==
  {[type |-> "OTHER", payload |-> [note |-> "new", ref |-> Null],
    priority |-> p, maxAttempts |-> m] : p \in Priorities, m \in MaxAttemptsArgs}
UpdateArgs ==
  {[id |-> i,
    updates |-> [type |-> "OTHER", payload |-> [note |-> "edited"],
                 priority |-> 10]] : i \in IdArgs}
IdOnlyArgs == {[id |-> i] : i \in IdArgs}
ArgsOf(op) ==
  CASE op = "enqueue" -> EnqueueArgs
    [] op = "update" -> UpdateArgs
    [] op = "remove" -> IdOnlyArgs
    [] op = "incrementAttempts" -> IdOnlyArgs
    [] op = "removeFailedActions" -> {Null}

\* What an earlier run of the app can have left in storage: nothing, or one
\* record that has used up its attempts and one that has one attempt left.
StoredRecord(id, priority, attempts) ==
  [id          |-> id,
   type        |-> "OTHER",
   payload     |-> [note |-> "stored"],
   priority    |-> priority,
   attempts    |-> attempts,
   maxAttempts |-> DefaultMaxAttempts,
   lastAttempt |-> Some(ToISOString(150000)),
   createdAt   |-> ToISOString(100000)]
StoredAtLaunch ==
  {<<>>,
   <<StoredRecord(1, 1, DefaultMaxAttempts),
     StoredRecord(2, 10, DefaultMaxAttempts - 1)>>}

InitQueue ==
  /\ platform \in {"web", "native"}
  /\ wall \in LaunchWalls
  /\ mono = LaunchUptime
  /\ clockChanges = 0
  /\ store = InitStore
  /\ queue \in StoredAtLaunch
  /\ calls = [c \in CallIds |-> IdleCall]
  /\ nextId = Len(queue) + 1
  /\ last = Returned("none", "void", Null, "none")
  /\ enqueued = {}
  /\ returned = {}
  /\ twin = [wall |-> wall, store |-> InitStore]
  /\ svc = [s \in SvcIds |-> IdleSvc]
  /\ issued = <<>>
  /\ launch = queue
  /\ synced = {}
  /\ capture = NoCapture
  /\ appState = "active"
  /\ shifts = <<>>

SvcInFlight == {s \in SvcIds : svc[s].op # "idle"}
CallsMade == Len(issued) + Cardinality(SvcInFlight)
FreeSvc(s) ==
  /\ svc[s].op = "idle"
  /\ \A d \in SvcIds : d < s => svc[d].op # "idle"

Finished(op, id, data, ok) == [op |-> op, id |-> id, data |-> data, ok |-> ok]

(* web: const queue = await loadQueue(), the first statement of every call *)
WebLoadQueue(s, op, arg) ==
  /\ platform = "web"
  /\ CallsMade < MaxQueueCalls
  /\ FreeSvc(s)
  /\ arg \in ArgsOf(op)
  /\ svc' = [svc EXCEPT ![s] = [op |-> op, arg |-> Some(arg), loaded |-> queue]]
  /\ UNCHANGED <<platform, wall, mono, clockChanges, store, queue, calls, nextId,
                 last, enqueued, returned, twin, issued, launch, synced, capture, appState, shifts>>

(* web enqueue, lines 89-102: build the record, push, saveQueue *)
WebEnqueue(s) ==
  /\ platform = "web" /\ svc[s].op = "enqueue"
  /\ LET a   == Val(svc[s].arg)
         rec == QueuedAction(nextId, a.type, a.payload, a.priority, a.maxAttempts, wall)
     IN /\ queue' = Append(svc[s].loaded, Stored(rec))
        /\ issued' = Append(issued, Finished("enqueue", rec.id, Stored(rec), TRUE))
        /\ last' = Returned("enqueue", "action", Some(rec), "none")
  /\ nextId' = nextId + 1
  /\ svc' = [svc EXCEPT ![s] = IdleSvc]
  /\ UNCHANGED <<platform, wall, mono, clockChanges, store, calls,
                 enqueued, returned, twin, launch, synced, capture, appState, shifts>>

(* web update, lines 171-185 *)
WebUpdate(s) ==
  /\ platform = "web" /\ svc[s].op = "update"
  /\ LET a == Val(svc[s].arg)
         r == QueueUpdate(platform, svc[s].loaded, a.id, a.updates)
     IN /\ queue' = IF r.ok THEN r.q ELSE queue
        /\ issued' = Append(issued, Finished("update", a.id, a.updates, r.ok))
  /\ svc' = [svc EXCEPT ![s] = IdleSvc]
  /\ last' = IF issued'[Len(issued')].ok
             THEN Returned("update", "void", Null, "none")
             ELSE Returned("update", "throw", Null, "not-found")
  /\ UNCHANGED <<platform, wall, mono, clockChanges, store, calls, nextId,
                 enqueued, returned, twin, launch, synced, capture, appState, shifts>>

(* web remove, lines 200-203 *)
WebRemove(s) ==
  /\ platform = "web" /\ svc[s].op = "remove"
  /\ LET a == Val(svc[s].arg) IN
        /\ queue' = QueueRemove(svc[s].loaded, a.id)
        /\ issued' = Append(issued, Finished("remove", a.id, Null, TRUE))
  /\ svc' = [svc EXCEPT ![s] = IdleSvc]
  /\ last' = Returned("remove", "void", Null, "none")
  /\ UNCHANGED <<platform, wall, mono, clockChanges, store, calls, nextId,
                 enqueued, returned, twin, launch, synced, capture, appState, shifts>>

(* web incrementAttempts, lines 290-300 *)
WebIncrementAttempts(s) ==
  /\ platform = "web" /\ svc[s].op = "incrementAttempts"
  /\ LET a == Val(svc[s].arg)
         r == QueueIncrementAttempts(platform, svc[s].loaded, a.id, wall)
     IN /\ queue' = IF r.ok THEN r.q ELSE queue
        /\ issued' = Append(issued, Finished("incrementAttempts", a.id, wall, r.ok))
  /\ svc' = [svc EXCEPT ![s] = IdleSvc]
  /\ last' = IF issued'[Len(issued')].ok
             THEN Returned("incrementAttempts", "void", Null, "none")
             ELSE Returned("incrementAttempts", "throw", Null, "not-found")
  /\ UNCHANGED <<platform, wall, mono, clockChanges, store, calls, nextId,
                 enqueued, returned, twin, launch, synced, capture, appState, shifts>>

(* native enqueue: INSERT INTO offline_queue *)
NativeEnqueue(a) ==
  /\ platform = "native"
  /\ CallsMade < MaxQueueCalls
  /\ LET rec == QueuedAction(nextId, a.type, a.payload, a.priority, a.maxAttempts, wall)
     IN /\ queue' = Append(queue, Stored(rec))
        /\ issued' = Append(issued, Finished("enqueue", rec.id, Stored(rec), TRUE))
        /\ last' = Returned("enqueue", "action", Some(rec), "none")
  /\ nextId' = nextId + 1
  /\ UNCHANGED <<platform, wall, mono, clockChanges, store, calls,
                 enqueued, returned, twin, svc, launch, synced, capture, appState, shifts>>

(* native update: UPDATE offline_queue SET ... WHERE id = ? *)
NativeUpdate(a) ==
  /\ platform = "native"
  /\ CallsMade < MaxQueueCalls
  /\ LET r == QueueUpdate(platform, queue, a.id, a.updates) IN
        /\ queue' = r.q
        /\ issued' = Append(issued, Finished("update", a.id, a.updates, r.ok))
  /\ last' = IF issued'[Len(issued')].ok
             THEN Returned("update", "void", Null, "none")
             ELSE Returned("update", "throw", Null, "not-found")
  /\ UNCHANGED <<platform, wall, mono, clockChanges, store, calls, nextId,
                 enqueued, returned, twin, svc, launch, synced, capture, appState, shifts>>

(* native remove: DELETE FROM offline_queue WHERE id = ? *)
NativeRemove(a) ==
  /\ platform = "native"
  /\ CallsMade < MaxQueueCalls
  /\ queue' = QueueRemove(queue, a.id)
  /\ issued' = Append(issued, Finished("remove", a.id, Null, TRUE))
  /\ last' = Returned("remove", "void", Null, "none")
  /\ UNCHANGED <<platform, wall, mono, clockChanges, store, calls, nextId,
                 enqueued, returned, twin, svc, launch, synced, capture, appState, shifts>>

(* native incrementAttempts *)
NativeIncrementAttempts(a) ==
  /\ platform = "native"
  /\ CallsMade < MaxQueueCalls
  /\ LET r == QueueIncrementAttempts(platform, queue, a.id, wall) IN
        /\ queue' = r.q
        /\ issued' = Append(issued, Finished("incrementAttempts", a.id, wall, r.ok))
  /\ last' = IF issued'[Len(issued')].ok
             THEN Returned("incrementAttempts", "void", Null, "none")
             ELSE Returned("incrementAttempts", "throw", Null, "not-found")
  /\ UNCHANGED <<platform, wall, mono, clockChanges, store, calls, nextId,
                 enqueued, returned, twin, svc, launch, synced, capture, appState, shifts>>

(* web removeFailedActions, lines 316-327 *)
WebRemoveFailedActions(s) ==
  /\ platform = "web" /\ svc[s].op = "removeFailedActions"
  /\ LET r == QueueRemoveFailed(svc[s].loaded) IN
        /\ queue' = r.q
        /\ issued' = Append(issued, Finished("removeFailedActions", 0, r.count, TRUE))
        /\ last' = Returned("removeFailedActions", r.count, Null, "none")
  /\ svc' = [svc EXCEPT ![s] = IdleSvc]
  /\ UNCHANGED <<platform, wall, mono, clockChanges, store, calls, nextId,
                 enqueued, returned, twin, launch, synced, capture, appState, shifts>>

(* native removeFailedActions: DELETE ... WHERE attempts >= max_attempts *)
NativeRemoveFailedActions ==
  /\ platform = "native"
  /\ CallsMade < MaxQueueCalls
  /\ LET r == QueueRemoveFailed(queue) IN
        /\ queue' = r.q
        /\ issued' = Append(issued, Finished("removeFailedActions", 0, r.count, TRUE))
        /\ last' = Returned("removeFailedActions", r.count, Null, "none")
  /\ UNCHANGED <<platform, wall, mono, clockChanges, store, calls, nextId,
                 enqueued, returned, twin, svc, launch, synced, capture, appState, shifts>>

(* clearQueue: AsyncStorage.removeItem / DELETE FROM offline_queue *)
ClearQueue ==
  /\ CallsMade < MaxQueueCalls
  /\ queue' = <<>>
  /\ issued' = Append(issued, Finished("clearQueue", 0, Null, TRUE))
  /\ last' = Returned("clearQueue", "void", Null, "none")
  /\ UNCHANGED <<platform, wall, mono, clockChanges, store, calls, nextId,
                 enqueued, returned, twin, svc, launch, synced, capture, appState, shifts>>

(* The server acknowledges a queued record: its sync is confirmed. *)
ConfirmSync(id) ==
  /\ \E i \in 1..Len(queue) : queue[i].id = id
  /\ id \notin synced
  /\ synced' = synced \cup {id}
  /\ UNCHANGED <<platform, wall, mono, clockChanges, store, queue, calls, nextId,
                 last, enqueued, returned, twin, svc, issued, launch, capture, appState, shifts>>

(* getQueue(limit): reads, sorts, returns; nothing is written back *)
GetQueue(limit) ==
  /\ last' = Returned("getQueue", "actions",
                      Some(IF platform = "web" THEN GetQueueWeb(queue, limit)
                                               ELSE GetQueueNative(queue, limit)),
                      "none")
  /\ UNCHANGED <<platform, wall, mono, clockChanges, store, queue, calls, nextId,
                 enqueued, returned, twin, svc, issued, launch, synced, capture, appState, shifts>>

NextQueue ==
  \/ \E m \in MonoVals : Advance(m)
  \/ \E w \in WallSettings : SetWallClock(w)
  \/ \E s \in SvcIds, op \in {"enqueue", "update", "remove", "incrementAttempts",
                            "removeFailedActions"} :
       \E a \in ArgsOf(op) : WebLoadQueue(s, op, a)
  \/ \E s \in SvcIds : WebEnqueue(s)
  \/ \E s \in SvcIds : WebUpdate(s)
  \/ \E s \in SvcIds : WebRemove(s)
  \/ \E s \in SvcIds : WebIncrementAttempts(s)
  \/ \E a \in EnqueueArgs : NativeEnqueue(a)
  \/ \E a \in UpdateArgs : NativeUpdate(a)
  \/ \E a \in IdOnlyArgs : NativeRemove(a)
  \/ \E a \in IdOnlyArgs : NativeIncrementAttempts(a)
  \/ \E s \in SvcIds : WebRemoveFailedActions(s)
  \/ NativeRemoveFailedActions
  \/ ClearQueue
  \/ \E l \in Limits : GetQueue(l)

SpecQueue == Init /\ [][NextQueue]_vars

(* web getStats: one loadQueue(), then the counts over that array *)
WebGetStats ==
  /\ platform = "web"
  /\ last' = Returned("getStats", QueueStats(queue), Null, "none")
  /\ UNCHANGED <<platform, wall, mono, clockChanges, store, queue, calls, nextId,
                 enqueued, returned, twin, svc, issued, launch, synced, capture, appState, shifts>>

(* native getStats, line 489: total = await this.getCount() *)
NativeGetStatsCount(s) ==
  /\ platform = "native"
  /\ CallsMade < MaxQueueCalls
  /\ FreeSvc(s)
  /\ svc' = [svc EXCEPT ![s] =
               [op |-> "getStats",
                arg |-> Some([read |-> 1, total |-> Len(queue), byType |-> <<>>,
                              byPriority |-> <<>>, writesBefore |-> Len(issued)]),
                loaded |-> <<>>]]
  /\ UNCHANGED <<platform, wall, mono, clockChanges, store, queue, calls, nextId,
                 last, enqueued, returned, twin, issued, launch, synced, capture, appState, shifts>>

(* native getStats, lines 491-493: SELECT type, COUNT ... GROUP BY type *)
NativeGetStatsByType(s) ==
  /\ platform = "native"
  /\ svc[s].op = "getStats" /\ Val(svc[s].arg).read = 1
  /\ svc' = [svc EXCEPT ![s].arg =
               Some([Val(svc[s].arg) EXCEPT !.read = 2, !.byType = CountByType(queue)])]
  /\ UNCHANGED <<platform, wall, mono, clockChanges, store, queue, calls, nextId,
                 last, enqueued, returned, twin, issued, launch, synced, capture, appState, shifts>>

(* native getStats, lines 495-497: SELECT priority, COUNT ... GROUP BY priority *)
NativeGetStatsByPriority(s) ==
  /\ platform = "native"
  /\ svc[s].op = "getStats" /\ Val(svc[s].arg).read = 2
  /\ svc' = [svc EXCEPT ![s].arg =
               Some([Val(svc[s].arg) EXCEPT !.read = 3,
                                            !.byPriority = CountByPriority(queue)])]
  /\ UNCHANGED <<platform, wall, mono, clockChanges, store, queue, calls, nextId,
                 last, enqueued, returned, twin, issued, launch, synced, capture, appState, shifts>>

(* native getStats, lines 499-518: SELECT COUNT ... WHERE attempts >=
   max_attempts, then the result object *)
NativeGetStatsFailed(s) ==
  /\ platform = "native"
  /\ svc[s].op = "getStats" /\ Val(svc[s].arg).read = 3
  /\ last' = Returned("getStats",
                      [total       |-> Val(svc[s].arg).total,
                       byType      |-> Val(svc[s].arg).byType,
                       byPriority  |-> Val(svc[s].arg).byPriority,
                       failedCount |-> FailedCount(queue)],
                      Null, "none")
  /\ svc' = [svc EXCEPT ![s] = IdleSvc]
  /\ UNCHANGED <<platform, wall, mono, clockChanges, store, queue, calls, nextId,
                 enqueued, returned, twin, issued, launch, synced, capture, appState, shifts>>

\* The calls that take records out of the queue or decide whether one may go,
\* with the server's acknowledgements.
NextPurge ==
  \/ \E s \in SvcIds, op \in {"enqueue", "remove", "incrementAttempts",
                            "removeFailedActions"} :
       \E a \in ArgsOf(op) : WebLoadQueue(s, op, a)
  \/ \E s \in SvcIds : WebEnqueue(s)
  \/ \E s \in SvcIds : WebRemove(s)
  \/ \E s \in SvcIds : WebIncrementAttempts(s)
  \/ \E s \in SvcIds : WebRemoveFailedActions(s)
  \/ \E a \in EnqueueArgs : NativeEnqueue(a)
  \/ \E a \in IdOnlyArgs : NativeRemove(a)
  \/ \E a \in IdOnlyArgs : NativeIncrementAttempts(a)
  \/ NativeRemoveFailedActions
  \/ ClearQueue
  \/ \E id \in IdArgs : ConfirmSync(id)
  \/ WebGetStats
  \/ \E s \in SvcIds : NativeGetStatsCount(s)
  \/ \E s \in SvcIds : NativeGetStatsByType(s)
  \/ \E s \in SvcIds : NativeGetStatsByPriority(s)
  \/ \E s \in SvcIds : NativeGetStatsFailed(s)

SpecPurge == InitQueue /\ [][NextPurge]_vars

-----------------------------------------------------------------------------
(* TimeTruthService: captures, what is done to them afterwards, validation *)

Others == <<platform, clockChanges, store, queue, calls, nextId, enqueued,
            returned, twin, svc, issued, launch, synced, appState, shifts>>

(* captureCurrentTime(eventType) *)
CaptureCurrentTimeCall(eventType, outcome) ==
  /\ outcome \in CaptureOutcomes(platform)
  /\ IF outcome = "throw"
     THEN /\ capture' = NoCapture
          /\ last' = Returned("captureCurrentTime", "throw", Null, "capture-failed")
     ELSE LET c == CaptureCurrentTime(platform, eventType, outcome, wall, mono) IN
          /\ capture' = [kind |-> "signed", source |-> outcome, made |-> Some(c),
                         value |-> Some(c), isValid |-> Null]
          /\ last' = Returned("captureCurrentTime", "capture", Some(c), "none")
  /\ UNCHANGED <<wall, mono>>
  /\ UNCHANGED Others

(* captureTimeEvent(eventType) *)
CaptureTimeEventCall(eventType, outcome) ==
  /\ outcome \in CaptureOutcomes(platform)
  /\ IF outcome = "throw"
     THEN /\ capture' = NoCapture
          /\ last' = Returned("captureTimeEvent", "throw", Null, "capture-failed")
     ELSE LET e == TimeEvent(platform, eventType, outcome, wall, mono) IN
          /\ capture' = [kind |-> "event", source |-> outcome, made |-> Some(e),
                         value |-> Some(e), isValid |-> Null]
          /\ last' = Returned("captureTimeEvent", "event", Some(e), "none")
  /\ UNCHANGED <<wall, mono>>
  /\ UNCHANGED Others

\* What a holder of a signed capture may write into one payload field.
PayloadEdits ==
  [field : {"userTime"}, to : {1, 200000}]
    \cup [field : {"monotonicTime"}, to : {1}]
    \cup [field : {"eventType"}, to : {"CLOCK_IN", "CLOCK_OUT"}]
    \cup [field : {"deviceId"}, to : {"other-device"}]
    \cup [field : {"timestamp"}, to : {ToISOString(1)}]

(* One field of the payload is overwritten after signing. *)
EditPayload(e) ==
  /\ capture.kind = "signed"
  /\ Val(capture.value).payload[e.field] # e.to
  /\ capture' = [capture EXCEPT
                   !.value = Some([Val(capture.value) EXCEPT !.payload[e.field] = e.to]),
                   !.isValid = Null]
  /\ UNCHANGED <<wall, mono, last>>
  /\ UNCHANGED Others

(* validateIntegrity(signedCapture) *)
ValidateIntegrityCall ==
  /\ capture.kind = "signed"
  /\ capture.isValid = Null
  /\ capture' = [capture EXCEPT
                   !.isValid = Some(ValidateIntegrity(platform, Val(capture.value)))]
  /\ last' = Returned("validateIntegrity", Val(capture'.isValid), capture.value, "none")
  /\ UNCHANGED <<wall, mono>>
  /\ UNCHANGED Others

NextCapture ==
  \/ \E m \in MonoVals : Advance(m)
  \/ \E w \in WallSettings : SetWallClock(w)
  \/ \E t \in TimeEventTypes, o \in {"uptime", "perf", "throw"} : CaptureCurrentTimeCall(t, o)
  \/ \E t \in TimeEventTypes, o \in {"uptime", "perf", "throw"} : CaptureTimeEventCall(t, o)
  \/ \E e \in PayloadEdits : EditPayload(e)
  \/ ValidateIntegrityCall

SpecCapture == Init /\ [][NextCapture]_vars

-----------------------------------------------------------------------------
(* The AppState 'change' listeners of ActiveTaskTunnel and App *)

AppStateStatus == {"active", "inactive", "background"}

\* nextAppState.match(/inactive|background/)
MatchesInactiveOrBackground(a) == a \in {"inactive", "background"}

\* appState.current.match(/active/): "inactive" contains "active"
MatchesActive(a) == a \in {"active", "inactive"}

\* ActiveTaskTunnel's listener: compares with the state it saw last.
TunnelListener(st, current, nextAppState, w) ==
  LET s1 == IF MatchesActive(current) /\ MatchesInactiveOrBackground(nextAppState)
            THEN PauseSet(st, w) ELSE st
  IN IF MatchesInactiveOrBackground(current) /\ nextAppState = "active"
     THEN ResumeSet(s1, w) ELSE s1

\* App's listener: acts only while the rendered appMode is ACTIVE.
AppListener(st, nextAppState, w) ==
  IF st.appMode # "ACTIVE" THEN st
  ELSE IF MatchesInactiveOrBackground(nextAppState) THEN PauseSet(st, w)
  ELSE IF nextAppState = "active" THEN ResumeSet(st, w)
  ELSE st

(* The platform reports a new app state; both listeners run, the child's
   (ActiveTaskTunnel) subscription first. *)
AppStateChange(nextAppState) ==
  /\ NoCaptureRunning
  /\ nextAppState # appState
  /\ store' = AppListener(TunnelListener(store, appState, nextAppState, wall),
                          nextAppState, wall)
  /\ appState' = nextAppState
  /\ last' = Returned("appStateChange", nextAppState, Some(appState), "none")
  /\ UNCHANGED <<platform, wall, mono, clockChanges, queue, calls, nextId,
                 enqueued, returned, twin, svc, issued, launch, synced, capture, shifts>>

NextLifecycle ==
  \/ \E m \in MonoVals : Advance(m)
  \/ \E w \in WallSettings : SetWallClock(w)
  \/ \E c \in Awaited, t \in Tasks : StartTunnel(c, t)
  \/ \E c \in Awaited, s \in {"uptime", "perf", "throw"} : StartCapture(c, s)
  \/ \E c \in Awaited, ok \in BOOLEAN : StartPersist(c, ok)
  \/ \E c \in Awaited : EndTunnel(c)
  \/ \E c \in Awaited, s \in {"uptime", "perf", "throw"} : EndCapture(c, s)
  \/ \E c \in Awaited, ok \in BOOLEAN : EndPersist(c, ok)
  \/ PauseSession
  \/ ResumeSession
  \/ \E a \in AppStateStatus : AppStateChange(a)

SpecLifecycle == Init /\ [][NextLifecycle]_vars

-----------------------------------------------------------------------------
(* TimeTruthService.validateTimeEntry, a function of the entry alone *)

MsPerHour == 3600000

Abs(x) == IF x < 0 THEN 0 - x ELSE x

\* variance > 0.05 for variance = Math.abs(wall - mono) / wall in doubles: a
\* zero divisor gives Infinity for a non-zero difference and NaN for 0 / 0, a
\* negative one a quotient that is not positive; NaN > 0.05 is false.  For the
\* durations here a positive quotient exceeds the double 0.05 exactly when
\* 20 * |wall - mono| > wall, that is |wall - mono| > wall \div 20.
VarianceAboveTolerance(wallClockDuration, monotonicDuration) ==
  IF wallClockDuration > 0
  THEN Abs(wallClockDuration - monotonicDuration) > wallClockDuration \div 20
  ELSE IF wallClockDuration = 0
       THEN Abs(wallClockDuration - monotonicDuration) > 0
       ELSE FALSE

\* validateTimeEntry.  The web build has no monotonic checks.  if (x) on a
\* number is false for 0 as well as for null.  monotonicStart is a number in
\* every TimeEntry, so "Missing monotonic start time" is never pushed.
ValidateTimeEntry(plat, timeEntry) ==
  LET timed    == timeEntry.endTime # Null
      start    == GetTime(timeEntry.startTime)
      end      == GetTime(timeEntry.endTime)
      monoEnd  == timeEntry.monotonicEnd # Null /\ Val(timeEntry.monotonicEnd) # 0
      issues   ==
        (IF timed /\ end < start THEN {"End time is before start time"} ELSE {})
        \cup (IF timed /\ end - start > 24 * MsPerHour
              THEN {"Duration is suspiciously long"} ELSE {})
        \cup (IF plat = "native" /\ timed /\ monoEnd
                 /\ VarianceAboveTolerance(
                      end - start,
                      Val(timeEntry.monotonicEnd) - timeEntry.monotonicStart)
              THEN {"Time variance detected"} ELSE {})
  IN [isValid |-> issues = {}, issues |-> issues]

\* Entries to validate: started at wall clock 1000 and uptime 2000; still
\* open, ended before the start, at once, after 100 s, after 24 h to the
\* millisecond, one millisecond more, and after 48 h; the uptime at the end
\* absent, 0, equal to the start, 5% and a little over 5% short of 100 s,
\* and 100 s on.
ValidatedEnds == {0, 1000, 101000, 1000 + 24 * MsPerHour, 1001 + 24 * MsPerHour,
                  1000 + 48 * MsPerHour}
ValidatedMonotonicEnds == {0, 2000, 96999, 97000, 102000}
ValidatedEntries ==
  {[NewTimeEntry("entry", [id |-> "task-1"],
                 [wallClockTime  |-> ToISOString(1000),
                  monotonicTime  |-> 2000,
                  deviceBootTime |-> ToISOString(-1000)])
      EXCEPT !.endTime = e, !.monotonicEnd = m] :
     e \in {Null} \cup {ToISOString(t) : t \in ValidatedEnds},
     m \in {Null} \cup {Some(n) : n \in ValidatedMonotonicEnds}}

InitValidate ==
  /\ platform \in {"web", "native"}
  /\ wall \in LaunchWalls
  /\ mono = LaunchUptime
  /\ clockChanges = 0
  /\ store = InitStore
  /\ queue = <<>>
  /\ calls = [c \in CallIds |-> IdleCall]
  /\ nextId = 1
  /\ \E e \in ValidatedEntries : last = Returned("none", "void", Some(e), "none")
  /\ enqueued = {}
  /\ returned = {}
  /\ twin = [wall |-> wall, store |-> InitStore]
  /\ svc = [s \in SvcIds |-> IdleSvc]
  /\ issued = <<>>
  /\ launch = <<>>
  /\ synced = {}
  /\ capture = NoCapture
  /\ appState = "active"
  /\ shifts = <<>>

(* validateTimeEntry(timeEntry) *)
ValidateTimeEntryCall ==
  /\ last.op = "none"
  /\ last' = Returned("validateTimeEntry",
                      ValidateTimeEntry(platform, Val(last.entry)), last.entry, "none")
  /\ UNCHANGED <<platform, wall, mono, clockChanges, store, queue, calls, nextId,
                 enqueued, returned, twin, svc, issued, launch, synced, capture, appState, shifts>>

NextValidate == ValidateTimeEntryCall

SpecValidate == InitValidate /\ [][NextValidate]_vars

-----------------------------------------------------------------------------
(* TimeTruthService.markAsSynced and getPendingTimeEntries, beside          *)
(* startTunnel                                                              *)

\* getPendingTimeEntries(): the payloads of the TIME_ENTRY records of getQueue()
PendingTimeEntries(plat, q) ==
  LET all   == IF plat = "web" THEN GetQueueWeb(q, 0) ELSE GetQueueNative(q, 0)
      kept  == SelectSeq(all, LAMBDA action : action.type = "TIME_ENTRY")
  IN [i \in 1..Len(kept) |-> kept[i].payload]

\* markAsSynced(timeEntryId): OfflineQueueService.remove(timeEntryId), which
\* deletes the record whose own id is the argument
MarkAsSyncedQueue(q, timeEntryId) == QueueRemove(q, timeEntryId)

(* markAsSynced(timeEntryId) with the id of an entry startTunnel returned *)
MarkAsSynced(timeEntryId) ==
  /\ timeEntryId \in returned
  /\ queue' = MarkAsSyncedQueue(queue, timeEntryId)
  /\ last' = Returned("markAsSynced", "void", Some([id |-> timeEntryId]), "none")
  /\ UNCHANGED <<platform, wall, mono, clockChanges, store, calls, nextId,
                 enqueued, returned, twin, svc, issued, launch, synced, capture, appState, shifts>>

(* getPendingTimeEntries() *)
GetPendingTimeEntries ==
  /\ last' = Returned("getPendingTimeEntries", PendingTimeEntries(platform, queue),
                      Null, "none")
  /\ UNCHANGED <<platform, wall, mono, clockChanges, store, queue, calls, nextId,
                 enqueued, returned, twin, svc, issued, launch, synced, capture, appState, shifts>>

NextSync ==
  \/ \E m \in MonoVals : Advance(m)
  \/ \E w \in WallSettings : SetWallClock(w)
  \/ \E c \in Awaited, t \in Tasks : StartTunnel(c, t)
  \/ \E c \in Awaited, s \in {"uptime", "perf", "throw"} : StartCapture(c, s)
  \/ \E c \in Awaited, ok \in BOOLEAN : StartPersist(c, ok)
  \/ \E id \in returned : MarkAsSynced(id)
  \/ GetPendingTimeEntries

SpecSync == Init /\ [][NextSync]_vars

-----------------------------------------------------------------------------
(* useShiftStore: shifts and peer-to-peer trading *)

UserIds == {"user-1", "user-2"}
ShiftIdArgs == {"shift-001", "shift-002", "shift-404"}

\* A Shift; startTime, endTime, location and date are never read or written
\* by the trading actions and are left out.  An optional field that is absent
\* or undefined is Null.
MockShift(id, userId, role) ==
  [id |-> id, userId |-> userId, role |-> role, tradeStatus |-> "NONE",
   tradeInitiatorId |-> Null, tradeTargetUserId |-> Null,
   tradeOfferedAt |-> Null, tradeAcceptedAt |-> Null]

\* shifts.find((s) => s.id === shiftId): the index, 0 for undefined
FindShift(list, shiftId) ==
  IF \E i \in 1..Len(list) : list[i].id = shiftId
  THEN CHOOSE i \in 1..Len(list) :
         /\ list[i].id = shiftId
         /\ \A j \in 1..(i - 1) : list[j].id # shiftId
  ELSE 0

\* updateShift: shifts.map(shift => shift.id === shiftId ? {...shift, ...updates} : shift)
UpdateShift(list, shiftId, updates) ==
  [i \in 1..Len(list) |->
     IF list[i].id = shiftId
     THEN [k \in DOMAIN list[i] |->
             IF k \in DOMAIN updates THEN updates[k] ELSE list[i][k]]
     ELSE list[i]]

ShiftsUnchanged ==
  UNCHANGED <<platform, wall, mono, clockChanges, store, queue, calls, nextId,
              enqueued, returned, twin, svc, issued, launch, synced, capture, appState>>

(* generateMockShifts(userId) *)
GenerateMockShifts(userId) ==
  /\ shifts' = <<MockShift("shift-001", userId, "Server"),
                 MockShift("shift-002", userId, "Bartender"),
                 MockShift("shift-003", userId, "Host")>>
  /\ last' = Returned("generateMockShifts", "void", Null, "none")
  /\ ShiftsUnchanged

(* offerShift(shiftId, targetUserId, initiatorId) *)
OfferShift(shiftId, targetUserId, initiatorId) ==
  /\ LET i == FindShift(shifts, shiftId) IN
     IF i = 0
     THEN /\ last' = Returned("offerShift", "void", Null, "not-found")
          /\ UNCHANGED shifts
     ELSE IF shifts[i].userId # initiatorId
     THEN /\ last' = Returned("offerShift", "void", Null, "not-owner")
          /\ UNCHANGED shifts
     ELSE /\ shifts' = UpdateShift(shifts, shiftId,
                         [tradeStatus       |-> "OFFERED",
                          tradeInitiatorId  |-> Some(initiatorId),
                          tradeTargetUserId |-> Some(targetUserId),
                          tradeOfferedAt    |-> Some(ToISOString(wall))])
          /\ last' = Returned("offerShift", "void", Null, "none")
  /\ ShiftsUnchanged

(* acceptTrade(shiftId) *)
AcceptTrade(shiftId) ==
  /\ LET i == FindShift(shifts, shiftId) IN
     IF i = 0
     THEN /\ last' = Returned("acceptTrade", "void", Null, "not-found")
          /\ UNCHANGED shifts
     ELSE IF shifts[i].tradeStatus # "OFFERED"
     THEN /\ last' = Returned("acceptTrade", "void", Null, "invalid-state")
          /\ UNCHANGED shifts
     ELSE /\ shifts' = UpdateShift(shifts, shiftId,
                         [tradeStatus     |-> "ACCEPTED",
                          tradeAcceptedAt |-> Some(ToISOString(wall))])
          /\ last' = Returned("acceptTrade", "void", Null, "none")
  /\ ShiftsUnchanged

(* declineTrade(shiftId) *)
DeclineTrade(shiftId) ==
  /\ shifts' = UpdateShift(shifts, shiftId,
                 [tradeStatus       |-> "NONE",
                  tradeInitiatorId  |-> Null,
                  tradeTargetUserId |-> Null,
                  tradeOfferedAt    |-> Null])
  /\ last' = Returned("declineTrade", "void", Null, "none")
  /\ ShiftsUnchanged

(* approveTrade(shiftId) *)
ApproveTrade(shiftId) ==
  /\ LET i == FindShift(shifts, shiftId) IN
     IF i = 0 \/ shifts[IF i = 0 THEN 1 ELSE i].tradeStatus # "ACCEPTED"
     THEN /\ last' = Returned("approveTrade", "void", Null, "invalid-state")
          /\ UNCHANGED shifts
     ELSE /\ shifts' = UpdateShift(shifts, shiftId,
                         [userId      |-> Val(shifts[i].tradeTargetUserId),
                          tradeStatus |-> "APPROVED"])
          /\ last' = Returned("approveTrade", "void", Null, "none")
  /\ ShiftsUnchanged

NextShifts ==
  \/ \E u \in UserIds : GenerateMockShifts(u)
  \/ \E id \in ShiftIdArgs, target \in UserIds, initiator \in UserIds :
       OfferShift(id, target, initiator)
  \/ \E id \in ShiftIdArgs : AcceptTrade(id)
  \/ \E id \in ShiftIdArgs : DeclineTrade(id)
  \/ \E id \in ShiftIdArgs : ApproveTrade(id)

SpecShifts == Init /\ [][NextShifts]_vars

-----------------------------------------------------------------------------
(* Store calls that overlap: a call may be made while another is still at  *)
(* one of its awaits (a second tap, a timer, a lifecycle handler).         *)

NextOverlap ==
  \/ \E m \in MonoVals : Advance(m)
  \/ \E c \in CallIds, t \in Tasks : StartTunnel(c, t)
  \/ \E c \in CallIds, s \in {"uptime", "perf", "throw"} :
       StartCaptureWithin(c, s, Cardinality(CallIds))
  \/ \E c \in CallIds, ok \in BOOLEAN : StartPersist(c, ok)
  \/ \E c \in CallIds : EndTunnel(c)
  \/ \E c \in CallIds, s \in {"uptime", "perf", "throw"} : EndCapture(c, s)
  \/ \E c \in CallIds, ok \in BOOLEAN : EndPersist(c, ok)
  \/ \E c \in CallIds : ForceEndSession(c)
  \/ \E c \in CallIds, s \in {"uptime", "perf", "throw"} : ForceCapture(c, s)
  \/ \E c \in CallIds, ok \in BOOLEAN : ForcePersist(c, ok)

SpecOverlap == Init /\ [][NextOverlap]_vars

-----------------------------------------------------------------------------
(* Claims about the session machine *)

AnyCapture == {"uptime", "perf", "throw"}

\* C1: a startTunnel made while appMode is ACTIVE returns null at its guard and
\* changes neither the store nor the queue, and starts no work.
C1_StartWhileActiveRejected ==
  [][\A c \in CallIds, t \in Tasks :
       (store.appMode = "ACTIVE" /\ StartTunnel(c, t))
         => /\ store' = store
            /\ queue' = queue
            /\ calls' = calls
            /\ nextId' = nextId
            /\ last' = Returned("startTunnel", "null", Null, "already-active")]_vars

C1_Witness ==
  /\ store.appMode = "ACTIVE"
  /\ last = Returned("startTunnel", "null", Null, "already-active")
  /\ Len(queue) = 1

\* C2: the queue holds exactly one TIME_ENTRY record of priority 10 for every
\* entry startTunnel has returned, and no other record: the record is there
\* when startTunnel returns and endTunnel adds none.
C2_OneTimeEntryPerStartedSession ==
  /\ returned = enqueued
  /\ Len(queue) = Cardinality(returned)
  /\ \A id \in returned :
       Cardinality({i \in 1..Len(queue) :
                      /\ queue[i].type = "TIME_ENTRY"
                      /\ queue[i].priority = TimeEntryPriority
                      /\ queue[i].payload.id = id}) = 1

C2_Witness ==
  /\ last.op = "endTunnel" /\ last.result = "entry"
  /\ Val(last.entry).id \in returned
  /\ Len(queue) = 1

\* C3: the earnings endTunnel computes, and then stores, are the exact floor of
\* (monotonicEnd - monotonicStart - totalPauseDuration) * payRate / 60000.
C3_EndEarningsExactFloor ==
  [][\A c \in CallIds :
       /\ (calls[c].op = "end" /\ calls[c].pc = "capture" /\ calls'[c].pc = "persist")
            => calls'[c].earnings =
                 ExactFloorCents(
                   (Val(Val(calls'[c].entry).monotonicEnd)
                      - Val(calls'[c].entry).monotonicStart)
                     - Val(calls[c].snap).totalPauseDuration,
                   Val(Val(calls[c].snap).activeTask).payRate)
       /\ (calls[c].op = "end" /\ calls[c].pc = "persist" /\ last'.result = "entry")
            => store'.currentSessionEarnings = calls[c].earnings]_vars

\* C4: updateEarnings called while the session is ACTIVE and paused leaves
\* currentSessionEarnings as it is.
C4_NoAccrualWhilePaused ==
  [][(store.appMode = "ACTIVE" /\ store.isPaused /\ UpdateEarnings)
       => store'.currentSessionEarnings = store.currentSessionEarnings]_vars

C4_Witness ==
  /\ store.appMode = "ACTIVE" /\ store.isPaused
  /\ last.op = "updateEarnings"
  /\ wall > GetTime(store.pausedAt)
  /\ wall > GetTime(store.sessionStartTime)

\* C5: two devices that ran the same operations at the same uptimes show the
\* same currentSessionEarnings, whatever their wall clocks read: after
\* updateEarnings and after endTunnel alike.
C5_EarningsIndependentOfWallClock ==
  store.currentSessionEarnings = twin.store.currentSessionEarnings

\* C6: whenever forceEndSession has returned, the store is in its initial
\* state (appMode PASSIVE, every session field reset) and the call resolved,
\* whatever its capture and its queue update did.
C6_ForceEndAlwaysPassive ==
  last.op = "forceEndSession" => (store = InitStore /\ last.result = "void")

C6_Witness ==
  /\ last.op = "forceEndSession"
  /\ last.logged = "storage"
  /\ store.appMode = "PASSIVE"
  /\ Len(queue) = 1

\* C7: the step in which startTunnel or endTunnel fails, at its capture or at
\* its queue call, returns null and leaves the store and the queue as they
\* were; no earlier step of either call changes them; and while appMode is
\* ACTIVE the current entry has been enqueued.
C7_FailedTransitionLeavesState ==
  /\ [][\A c \in CallIds :
          (\/ StartCapture(c, "throw")
           \/ StartPersist(c, FALSE)
           \/ EndCapture(c, "throw")
           \/ EndPersist(c, FALSE)
           \/ (EndPersist(c, TRUE) /\ last'.result = "null"))
            => (store' = store /\ queue' = queue /\ last'.result = "null")]_vars
  /\ [][\A c \in CallIds :
          (\/ \E t \in Tasks : StartTunnel(c, t)
           \/ EndTunnel(c)
           \/ \E s \in AnyCapture : StartCapture(c, s) \/ EndCapture(c, s))
            => (store' = store /\ queue' = queue)]_vars
  /\ [](store.appMode = "ACTIVE"
          => (store.currentTimeEntry # Null
              /\ Val(store.currentTimeEntry).id \in enqueued))

C7_Witness ==
  /\ last.op = "endTunnel" /\ last.result = "null" /\ last.logged = "storage"
  /\ store.appMode = "ACTIVE"
  /\ Len(queue) = 1

\* C8: an endTunnel that met no capture fault and no storage fault returned
\* the completed entry, left appMode PASSIVE, and the queue record of that
\* entry now carries the completed entry (endTime and monotonicEnd).
C8_EndUpdatesQueuedEntry ==
  (last.op = "endTunnel" /\ last.logged \notin {"no-session", "capture", "storage"})
    => /\ last.result = "entry"
       /\ store.appMode = "PASSIVE"
       /\ \E i \in 1..Len(queue) : queue[i].payload = Val(last.entry)

-----------------------------------------------------------------------------
(* Claims about OfflineQueueService *)

\* a goes before b in the order getQueue promises: higher priority first,
\* then the earlier createdAt, then the record enqueued first (uuidv4 values
\* are handed out in the order the records are built).
GoesBefore(a, b) ==
  \/ a.priority > b.priority
  \/ /\ a.priority = b.priority
     /\ GetTime(a.createdAt) < GetTime(b.createdAt)
  \/ /\ a.priority = b.priority
     /\ GetTime(a.createdAt) = GetTime(b.createdAt)
     /\ a.id < b.id

\* C9: a getQueue call without a limit returns every stored record once, and
\* any getQueue call returns records in order: priority descending, then
\* createdAt ascending, then enqueue order; on the web and the native build.
C9_GetQueueOrdered ==
  [][\A l \in Limits :
       GetQueue(l)
         => LET r == Val(last'.entry) IN
            /\ \A i, j \in 1..Len(r) : i < j => GoesBefore(r[i], r[j])
            /\ \A i \in 1..Len(r) : \E k \in 1..Len(queue) : queue[k] = r[i]
            /\ Len(r) = IF l = 0 \/ l >= Len(queue) THEN Len(queue) ELSE l]_vars

C9_Witness ==
  /\ last.op = "getQueue"
  /\ launch = <<>>
  /\ Len(queue) = 2
  /\ queue[1].priority < queue[2].priority
  /\ Val(last.entry) = <<queue[2], queue[1]>>

\* All orders in which n finished calls can be run one after the other.
Orders(n) == {f \in [1..n -> 1..n] : \A i, j \in 1..n : i # j => f[i] # f[j]}

\* One finished call run on its own against the stored queue q.
ApplyCall(plat, q, h) ==
  CASE h.op = "enqueue" -> [ok |-> TRUE, q |-> Append(q, h.data)]
    [] h.op = "update" -> QueueUpdate(plat, q, h.id, h.data)
    [] h.op = "remove" -> [ok |-> TRUE, q |-> QueueRemove(q, h.id)]
    [] h.op = "incrementAttempts" -> QueueIncrementAttempts(plat, q, h.id, h.data)
    [] h.op = "removeFailedActions" -> [ok |-> TRUE, q |-> QueueRemoveFailed(q).q]
    [] h.op = "clearQueue" -> [ok |-> TRUE, q |-> <<>>]

\* The finished calls hs run one after the other from q: the queue they
\* leave, and whether each call ended as it did in the run.
RECURSIVE Replay(_, _, _)
Replay(plat, q, hs) ==
  IF hs = <<>> THEN [ok |-> TRUE, q |-> q]
  ELSE LET r == ApplyCall(plat, q, Head(hs))
           rest == Replay(plat, r.q, Tail(hs))
       IN [ok |-> (r.ok = Head(hs).ok) /\ rest.ok, q |-> rest.q]

\* C10: once every call made has finished, the stored queue is the one some
\* sequential order of those calls leaves, each call ending in that order as
\* it ended in the run.
C10_QueueCallsAtomic ==
  (SvcInFlight = {})
    => \E f \in Orders(Len(issued)) :
         Replay(platform, launch, [i \in 1..Len(issued) |-> issued[f[i]]])
           = [ok |-> TRUE, q |-> queue]

-----------------------------------------------------------------------------
(* Claims about what leaves the queue *)

PermanentlyFailed(a) == a.attempts >= a.maxAttempts
StillQueued(q, id) == \E j \in 1..Len(q) : q[j].id = id

\* C11: a record leaves the queue only when its sync has been confirmed or
\* its attempts have reached maxAttempts; no queue operation deletes a record
\* that is neither synced nor permanently failed.
C11_RemovedOnlySyncedOrFailed ==
  [][\A i \in 1..Len(queue) :
       ~StillQueued(queue', queue[i].id)
         => (queue[i].id \in synced \/ PermanentlyFailed(queue[i]))]_vars

\* A removeFailedActions call completes in this step, and (web) nothing was
\* written between its loadQueue and its saveQueue.
RemoveFailedCompletes ==
  /\ Len(issued') = Len(issued) + 1
  /\ issued'[Len(issued')].op = "removeFailedActions"
  /\ platform = "web" =>
       \E s \in SvcIds : /\ svc[s].op = "removeFailedActions"
                         /\ svc'[s] = IdleSvc
                         /\ svc[s].loaded = queue

\* C12: removeFailedActions removes exactly the records with
\* attempts >= maxAttempts, returns how many it removed, and leaves every
\* other record, with its fields and its place in the order, as it was.
C12_RemoveFailedExact ==
  [][RemoveFailedCompletes =>
       /\ queue' = SelectSeq(queue, LAMBDA a : ~PermanentlyFailed(a))
       /\ last'.result =
            Cardinality({i \in 1..Len(queue) : PermanentlyFailed(queue[i])})
       /\ last'.result = Len(queue) - Len(queue')]_vars

\* The stored queue held one failed record and one with an attempt left; the
\* purge returned 1 and the second record is still there, unchanged.
C12_Witness ==
  /\ last.op = "removeFailedActions"
  /\ last.result = 1
  /\ launch = <<StoredRecord(1, 1, DefaultMaxAttempts),
                StoredRecord(2, 10, DefaultMaxAttempts - 1)>>
  /\ queue = <<StoredRecord(2, 10, DefaultMaxAttempts - 1)>>

-----------------------------------------------------------------------------
(* Claims about captures *)

\* C13: validateIntegrity answers true for a capture that captureCurrentTime
\* produced and nobody changed, and false for one whose payload was changed
\* after signing.
C13_ValidateIntegrityDetectsEdits ==
  capture.isValid # Null =>
    Val(capture.isValid) = (capture.value = capture.made)

\* The capture a native device reading its uptime source would have returned
\* with the same clock values in it.
TrustedTwin ==
  LET c == Val(capture.made) IN
  IF capture.kind = "signed"
  THEN CaptureCurrentTime("native", c.payload.eventType, "uptime",
                          c.payload.userTime, c.payload.monotonicTime)
  ELSE TimeEvent("native", c.eventType, "uptime",
                 GetTime(c.wallClockTime), c.monotonicTime)

\* C14: when the device-uptime source is unavailable, a capture is not returned
\* with a substitute clock value that passes for a trusted one: the call fails,
\* or the capture can be told apart from any capture of the uptime source.
C14_NoSilentSubstitute ==
  (capture.kind # "none" /\ (platform = "web" \/ capture.source = "perf"))
    => Val(capture.made) # TrustedTwin

-----------------------------------------------------------------------------
(* Claims about the session's figures *)

\* C15: the session's earnings are never negative, whatever sequence of
\* start, pause, resume, earnings update, end and forced end has run and
\* however the wall clock was set in between.
C15_EarningsNeverNegative ==
  store.currentSessionEarnings >= 0

EndNotBeforeStart(entry) ==
  entry.monotonicEnd # Null => Val(entry.monotonicEnd) >= entry.monotonicStart

\* C16: every completed time entry, whether endTunnel or forceEndSession
\* completed it, has monotonicEnd >= monotonicStart: the one a call has just
\* built and the one endTunnel returned.
C16_MonotonicEndNotBeforeStart ==
  /\ \A c \in CallIds :
       (calls[c].op \in {"end", "force"} /\ calls[c].pc = "persist")
         => EndNotBeforeStart(Val(calls[c].entry))
  /\ (last.op = "endTunnel" /\ last.result = "entry")
       => EndNotBeforeStart(Val(last.entry))

-----------------------------------------------------------------------------
(* Claims about pausing and resuming *)

\* A lifecycle signal is delivered in this step.
Signalled == appState' # appState

\* A pauseSession() call is made in this step, by a listener or directly.
PauseCalled ==
  \/ Signalled /\ MatchesInactiveOrBackground(appState')
  \/ last'.op = "pauseSession" /\ last' # last

\* C17: lifecycle edges are handled at most once.  During an ACTIVE session a
\* non-active signal that arrives while the session is already paused leaves
\* pausedAt and totalPauseDuration as they were, an active signal that arrives
\* while the session is running changes nothing, and a pause in PASSIVE
\* changes nothing.
C17_LifecycleEdgesOnce ==
  [][/\ (Signalled /\ MatchesInactiveOrBackground(appState')
           /\ store.appMode = "ACTIVE" /\ store.isPaused)
          => /\ store'.pausedAt = store.pausedAt
             /\ store'.totalPauseDuration = store.totalPauseDuration
             /\ store'.isPaused
     /\ (Signalled /\ appState' = "active"
           /\ store.appMode = "ACTIVE" /\ ~store.isPaused)
          => store' = store
     /\ (PauseCalled /\ store.appMode = "PASSIVE") => store' = store]_vars

\* The app went inactive and, some time later, to the background: the second
\* non-active signal met a session paused by the first.
C17_Witness ==
  /\ last.op = "appStateChange"
  /\ last.result = "background"
  /\ last.entry = Some("inactive")
  /\ store.appMode = "ACTIVE"
  /\ store.isPaused
  /\ GetTime(store.pausedAt) < wall

\* A resumeSession() call is made in this step, by a listener or directly.
ResumeCalled ==
  \/ Signalled /\ appState' = "active"
  \/ last'.op = "resumeSession" /\ last' # last

\* C18: a resume of an ACTIVE, paused session makes it running, clears
\* pausedAt and adds exactly (now - pausedAt) to totalPauseDuration, 0 when no
\* time has passed since the pause; a resume of a session that is not paused
\* changes nothing.
C18_ResumeAddsPauseDuration ==
  [][ResumeCalled =>
       IF store.appMode = "ACTIVE" /\ store.isPaused
       THEN store' = [store EXCEPT
                        !.isPaused = FALSE,
                        !.pausedAt = Null,
                        !.totalPauseDuration =
                           store.totalPauseDuration + (wall - GetTime(store.pausedAt))]
       ELSE store' = store]_vars

\* A session paused at one instant was resumed at a later one.
C18_Witness ==
  /\ last.op \in {"resumeSession", "appStateChange"}
  /\ store.appMode = "ACTIVE"
  /\ ~store.isPaused
  /\ store.pausedAt = Null
  /\ store.totalPauseDuration > 0

-----------------------------------------------------------------------------
(* Claims about calls that name a record *)

\* A call of the given operation completes in this step, and (web) nothing
\* was written between its loadQueue and its saveQueue.
Completes(op) ==
  /\ Len(issued') = Len(issued) + 1
  /\ issued'[Len(issued')].op = op
  /\ platform = "web" =>
       \E s \in SvcIds : /\ svc[s].op = op
                         /\ svc'[s] = IdleSvc
                         /\ svc[s].loaded = queue

\* C19: update(id, fields) on an id that is not in the queue fails with
\* "not found" and leaves the queue as it was, on both backends; on an id that
\* is in the queue it changes the given fields of that record and nothing else.
C19_UpdateMissingIdFails ==
  [][Completes("update") =>
       LET call == issued'[Len(issued')] IN
       IF ~StillQueued(queue, call.id)
       THEN /\ last'.result = "throw"
            /\ last'.logged = "not-found"
            /\ queue' = queue
       ELSE /\ Len(queue') = Len(queue)
            /\ \A j \in 1..Len(queue) :
                 queue'[j] = IF queue[j].id = call.id
                             THEN [queue[j] EXCEPT !.type = call.data.type,
                                                   !.payload = call.data.payload,
                                                   !.priority = call.data.priority]
                             ELSE queue[j]]_vars

\* C20: remove(id) on an id that is not in the queue is reported to the caller
\* as "not found", not as success, and the queue is as it was.
C20_RemoveMissingIdReported ==
  [][(Completes("remove") /\ ~StillQueued(queue, issued'[Len(issued')].id))
       => /\ last'.result = "throw"
          /\ last'.logged = "not-found"
          /\ queue' = queue]_vars

-----------------------------------------------------------------------------
(* Claims about enqueue and the statistics *)

\* An enqueue(a) call completes in this step, and (web) nothing was written
\* between its loadQueue and its saveQueue.
EnqueueCompletes(a) ==
  \/ NativeEnqueue(a)
  \/ \E s \in SvcIds : WebEnqueue(s) /\ Val(svc[s].arg) = a /\ svc[s].loaded = queue

\* What getQueue() without a limit returns from the stored queue q.
Listed(q) == IF platform = "web" THEN GetQueueWeb(q, 0) ELSE GetQueueNative(q, 0)

RECURSIVE SumOfCounts(_)
SumOfCounts(f) ==
  IF DOMAIN f = {} THEN 0
  ELSE LET k == CHOOSE x \in DOMAIN f : TRUE
       IN f[k] + SumOfCounts([x \in DOMAIN f \ {k} |-> f[x]])

\* A getStats() call returns in this step, and (native) nothing was written
\* between its first query and its last.
GetStatsReturns ==
  IF platform = "web"
  THEN last'.op = "getStats" /\ last' # last
  ELSE \E s \in SvcIds : /\ svc[s].op = "getStats"
                         /\ svc'[s] = IdleSvc
                         /\ Val(svc[s].arg).writesBefore = Len(issued)

\* C22: permanently failed records are counted before they go.  The
\* failedCount getStats returns is the number of records with
\* attempts >= maxAttempts, its total is the number of records and equals the
\* sum of its byType counts and the sum of its byPriority counts; and the
\* permanently failed records a removeFailedActions call deletes are as many
\* as the count it returns.
C22_FailedRecordsCounted ==
  [][/\ GetStatsReturns =>
          /\ last'.result.failedCount =
               Cardinality({i \in 1..Len(queue) : PermanentlyFailed(queue[i])})
          /\ last'.result.total = Len(queue)
          /\ last'.result.total = SumOfCounts(last'.result.byType)
          /\ last'.result.total = SumOfCounts(last'.result.byPriority)
     /\ RemoveFailedCompletes =>
          Cardinality({i \in 1..Len(queue) :
                         /\ PermanentlyFailed(queue[i])
                         /\ ~StillQueued(queue', queue[i].id)}) = last'.result]_vars

\* getStats reported one failed record out of two, of two priorities.
C22_Witness ==
  /\ last.op = "getStats"
  /\ last.result.failedCount = 1
  /\ last.result.total = 2
  /\ DOMAIN last.result.byPriority = {1, 10}

-----------------------------------------------------------------------------
(* Claims about validateTimeEntry *)

\* The three conditions, with |wall - mono| / wall > 0.05 read as
\* |wall - mono| > 0.05 * wall where the wall-clock duration is 0.
EntryShouldBeFlagged(e) ==
  /\ e.endTime # Null
  /\ LET wallClockDuration == GetTime(e.endTime) - GetTime(e.startTime) IN
     \/ wallClockDuration < 0
     \/ wallClockDuration > 24 * MsPerHour
     \/ /\ e.monotonicEnd # Null
        /\ Abs(wallClockDuration - (Val(e.monotonicEnd) - e.monotonicStart))
             > wallClockDuration \div 20

\* C23: validateTimeEntry reports an entry invalid exactly when its end is
\* before its start, or its wall-clock duration is over 24 hours, or its
\* wall-clock and monotonic durations differ by more than 5% of the wall-clock
\* duration, on the native and the web build alike, a completed entry of
\* wall-clock duration 0 included.
C23_ValidateTimeEntryExact ==
  last.op = "validateTimeEntry"
    => (last.result.isValid <=> ~EntryShouldBeFlagged(Val(last.entry)))

-----------------------------------------------------------------------------
(* Claims about markAsSynced *)

\* C24: once startSession has queued a time entry, markAsSynced(timeEntry.id)
\* removes that entry's record from the offline queue: getPendingTimeEntries
\* no longer returns the entry.
C24_MarkAsSyncedRemovesEntry ==
  [][\A id \in returned :
       MarkAsSynced(id) =>
         \A i \in 1..Len(PendingTimeEntries(platform, queue')) :
           PendingTimeEntries(platform, queue')[i].id # id]_vars

-----------------------------------------------------------------------------
(* Claims about shift trading *)

DocumentedFlow ==
  {<<"NONE", "OFFERED">>, <<"OFFERED", "ACCEPTED">>, <<"ACCEPTED", "APPROVED">>,
   <<"OFFERED", "NONE">>}

TradeCall ==
  \/ \E id \in ShiftIdArgs, target \in UserIds, initiator \in UserIds :
       OfferShift(id, target, initiator)
  \/ \E id \in ShiftIdArgs : AcceptTrade(id)
  \/ \E id \in ShiftIdArgs : DeclineTrade(id)
  \/ \E id \in ShiftIdArgs : ApproveTrade(id)

\* C25: under offerShift, acceptTrade, declineTrade and approveTrade a shift's
\* tradeStatus changes only along NONE -> OFFERED -> ACCEPTED -> APPROVED, or
\* from OFFERED back to NONE, and its userId changes only in an approveTrade of
\* an ACCEPTED shift, to that shift's tradeTargetUserId.
C25_TradeStatusFollowsFlow ==
  [][TradeCall =>
       \A i \in 1..Len(shifts) :
         /\ shifts'[i].tradeStatus # shifts[i].tradeStatus
              => <<shifts[i].tradeStatus, shifts'[i].tradeStatus>> \in DocumentedFlow
         /\ shifts'[i].userId # shifts[i].userId
              => /\ \E id \in ShiftIdArgs : ApproveTrade(id)
                 /\ shifts[i].tradeStatus = "ACCEPTED"
                 /\ shifts[i].tradeTargetUserId = Some(shifts'[i].userId)]_vars

\* The owner alone: userId changes only in an approveTrade of an ACCEPTED
\* shift, to its tradeTargetUserId
OwnerChangesOnlyByApprove ==
  [][TradeCall =>
       \A i \in 1..Len(shifts) :
         shifts'[i].userId # shifts[i].userId
           => /\ \E id \in ShiftIdArgs : ApproveTrade(id)
              /\ shifts[i].tradeStatus = "ACCEPTED"
              /\ shifts[i].tradeTargetUserId = Some(shifts'[i].userId)]_vars

-----------------------------------------------------------------------------
(* Claims about overlapping calls and lifecycle signals *)

\* C26: whenever the app is in the background or inactive and the mode is
\* ACTIVE, the session is paused, whatever the order of the lifecycle signals
\* and the steps of startTunnel, a signal that arrives while startTunnel
\* awaits its capture or its enqueue included.
C26_BackgroundedActiveIsPaused ==
  (MatchesInactiveOrBackground(appState) /\ store.appMode = "ACTIVE")
    => store.isPaused

\* C27: at most one session is active under overlapping calls: when a second
\* startTunnel is invoked while the first is at an await, at most one of them
\* succeeds and at most one TIME_ENTRY record is enqueued; so a startTunnel
\* never enqueues and succeeds while a session is already active.
C27_OverlappingStartsOneSession ==
  [][\A c \in CallIds :
       (StartPersist(c, TRUE) /\ last'.result = "entry") => ~AlreadyActive(store)]_vars

\* C29: once forceEndSession has returned, a startTunnel or endTunnel that was
\* already running neither makes the store ACTIVE again nor changes it in any
\* other way when it finishes.
C29_ForceEndIsFinal ==
  [][\A c \in CallIds :
       (calls[c].stale /\ calls[c].op \in {"start", "end"} /\ calls'[c].op = "idle")
         => store' = store]_vars

\* C30: for one started session at most one endTunnel call returns a
\* completed entry, also when endTunnel is invoked again while the first call
\* is at an await: an endTunnel never returns the entry that the endTunnel
\* before it returned.
C30_OneCompletedEntryPerSession ==
  [][\A c \in CallIds :
       (EndPersist(c, TRUE) /\ last'.result = "entry"
          /\ last.op = "endTunnel" /\ last.result = "entry")
         => Val(last'.entry).id # Val(last.entry).id]_vars

-----------------------------------------------------------------------------
(* Claims about pay for paused time *)

\* C28: paused time is never paid: when endTunnel is called on a session that
\* is still paused, the time from pausedAt to the CLOCK_OUT capture is left
\* out of the final earnings, like the pauses that were resumed.  (Stated for
\* runs in which the user has not set the device clock.)
C28_OpenPauseNotPaid ==
  [][\A c \in CallIds, source \in {"uptime", "perf"} :
       (/\ EndCapture(c, source)
        /\ clockChanges = 0
        /\ Val(calls[c].snap).isPaused)
         => LET st == Val(calls[c].snap)
                ev == Val(calls'[c].ev) IN
            calls'[c].earnings =
              FloorEarnings(
                (ev.monotonicTime - Val(st.monotonicSessionStart))
                  - st.totalPauseDuration
                  - (GetTime(ev.wallClockTime) - GetTime(st.pausedAt)),
                Val(st.activeTask).payRate)]_vars

====
